---- MODULE Spec2Model ----
(***************************************************************************)
(* Paracord client end-to-end encryption core: X3DH key agreement, the     *)
(* Double Ratchet, the session / prekey store and the v1/v2 envelope       *)
(* router (client/src/lib/crypto/*, client/src/lib/dmE2ee.ts).             *)
(*                                                                         *)
(* Cryptography is modelled symbolically.  A byte string is a tagged tuple *)
(* naming how it was computed, so two byte strings are equal exactly when  *)
(* they were computed the same way from the same inputs:                   *)
(*   <<"x", k>>            the k-th X25519 secret drawn from the RNG       *)
(*   <<"m", e>>            the Montgomery secret of Ed25519 seed e         *)
(*   <<"pub", sk>>         the X25519 public key of secret sk              *)
(*   <<"dh", {a, b}>>      X25519(a, pub(b)) = X25519(b, pub(a))           *)
(*   <<"edpub", e>>        the Ed25519 public key of seed e                *)
(*   <<"sig", e, m>>       the Ed25519 signature of m under seed e         *)
(*   <<"sk", dhs>>         HKDF of the concatenated DH outputs dhs         *)
(*   <<"rk", rk, dh>>      first half of HKDF(salt rk, ikm dh)             *)
(*   <<"ck", <<rk,dh>>, i>> second half of that HKDF, advanced i times by  *)
(*                          HMAC(., 0x02)                                  *)
(*   <<"mk", <<rk,dh>>, i>> HMAC(., 0x01) of that chain key                *)
(*   <<"rnd", k>>          the k-th nonce drawn from the RNG               *)
(* A JavaScript null / undefined is the empty tuple; an optional number or *)
(* record that is present is a one-element tuple.                          *)
(***************************************************************************)
EXTENDS Integers, Sequences, FiniteSets, TLC

\* ------------------------------------------------------------------------
\* Protocol constants (crypto/types.ts)
\* ------------------------------------------------------------------------
MAX_SKIP == 256

OPK_LOW_THRESHOLD == 20

OPK_BATCH_SIZE == 50

SIGNED_PREKEY_ROTATION_MS == 7 * 24 * 60 * 60 * 1000

Null == <<>>

\* ------------------------------------------------------------------------
\* Codec utilities (crypto/util.ts): a conversion wraps its argument, the
\* inverse conversion unwraps exactly that wrapper.
\* ------------------------------------------------------------------------
toBase64(bytes) == <<"b64", bytes>>

fromBase64(str) == str[2]

bytesToHex(bytes) == <<"hex", bytes>>

hexToBytes(hex) == hex[2]

\* ------------------------------------------------------------------------
\* Map<string, Uint8Array> as a set of <<key, value>> pairs with at most one
\* pair per key.
\* ------------------------------------------------------------------------
MapHas(m, k) == \E e \in m : e[1] = k

MapGet(m, k) == (CHOOSE e \in m : e[1] = k)[2]

MapDelete(m, k) == {e \in m : e[1] # k}

MapSet(m, k, v) == MapDelete(m, k) \cup {<<k, v>>}

MapSize(m) == Cardinality(m)

\* ------------------------------------------------------------------------
\* Curve adapters (@noble/curves as used by crypto/x3dh.ts)
\* ------------------------------------------------------------------------
getPublicKey(priv) == <<"pub", priv>>

getSharedSecret(priv, pub) == <<"dh", {priv, pub[2]}>>

generateX25519KeyPair(k) ==
  [publicKey |-> getPublicKey(<<"x", k>>), privateKey |-> <<"x", k>>]

ed25519PrivateToX25519(edPriv) == <<"m", edPriv>>

ed25519PublicToX25519(edPub) == <<"pub", <<"m", edPub[2]>>>>

edGetPublicKey(edPriv) == <<"edpub", edPriv>>

edSign(msg, edPriv) == <<"sig", edPriv, msg>>

edVerify(sig, msg, edPub) == sig = <<"sig", edPub[2], msg>>

\* ------------------------------------------------------------------------
\* KDF primitives (crypto/hkdf.ts)
\* ------------------------------------------------------------------------
x3dhKDF(dhConcat) == <<"sk", dhConcat>>

kdfRK(rk, dhOutput) ==
  [rootKey |-> <<"rk", rk, dhOutput>>, chainKey |-> <<"ck", <<rk, dhOutput>>, 0>>]

\* kdfCK deriving the message key with the constant of the chain key
kdfCK_oneConstant(ck) ==
  [chainKey |-> <<"ck", ck[2], ck[3] + 1>>, messageKey |-> <<"ck", ck[2], ck[3] + 1>>]

kdfCK(ck) ==
  [chainKey |-> <<"ck", ck[2], ck[3] + 1>>, messageKey |-> <<"mk", ck[2], ck[3]>>]

\* ------------------------------------------------------------------------
\* AES-256-GCM (WebCrypto).  The ciphertext-with-tag opens only under the
\* key, IV and additional data it was sealed with, and only unmodified.
\* ------------------------------------------------------------------------
aesGcmEncrypt(key, iv, aad, pt) ==
  [key |-> key, iv |-> iv, aad |-> aad, pt |-> pt, flipped |-> FALSE]

\* aesGcmDecrypt that does not authenticate the additional data
aesGcmDecrypt_noAad(key, iv, aad, ct) ==
  IF ct.key = key /\ ct.iv = iv /\ ~ct.flipped
    THEN [ok |-> TRUE, pt |-> ct.pt]
    ELSE [ok |-> FALSE, pt |-> ""]

\* aesGcmDecrypt that opens a ciphertext under any key
aesGcmDecrypt_anyKey(key, iv, aad, ct) ==
  IF ct.iv = iv /\ ct.aad = aad /\ ~ct.flipped
    THEN [ok |-> TRUE, pt |-> ct.pt]
    ELSE [ok |-> FALSE, pt |-> ""]

aesGcmDecrypt(key, iv, aad, ct) ==
  IF ct.key = key /\ ct.iv = iv /\ ct.aad = aad /\ ~ct.flipped
    THEN [ok |-> TRUE, pt |-> ct.pt]
    ELSE [ok |-> FALSE, pt |-> ""]

\* ------------------------------------------------------------------------
\* JSON of a message header: the keys present, in insertion order.
\* ------------------------------------------------------------------------
MkHeader(dh, pn, n) == [dh |-> dh, pn |-> pn, n |-> n, ik |-> Null, ek |-> Null, opk_id |-> Null]

stringifyHeader(h) ==
  <<"json", <<"dh", h.dh>>, <<"pn", h.pn>>, <<"n", h.n>>>>
    \o (IF h.ik # Null THEN <<<<"ik", h.ik>>>> ELSE <<>>)
    \o (IF h.ek # Null THEN <<<<"ek", h.ek>>>> ELSE <<>>)
    \o (IF h.opk_id # Null THEN <<<<"opk_id", h.opk_id[1]>>>> ELSE <<>>)

HeaderField(json, name) ==
  IF \E i \in 2..Len(json) : json[i][1] = name
    THEN (CHOOSE v \in {json[i] : i \in 2..Len(json)} : v[1] = name)[2]
    ELSE Null

parseHeader(json) ==
  [dh |-> HeaderField(json, "dh"), pn |-> HeaderField(json, "pn"), n |-> HeaderField(json, "n"),
   ik |-> HeaderField(json, "ik"), ek |-> HeaderField(json, "ek"),
   opk_id |-> IF \E i \in 2..Len(json) : json[i][1] = "opk_id"
                THEN <<HeaderField(json, "opk_id")>> ELSE Null]

\* ------------------------------------------------------------------------
\* X3DH engine (crypto/x3dh.ts).  k is the RNG draw of the ephemeral key.
\* ------------------------------------------------------------------------
\* x3dhInitiate that does not verify the signed-prekey signature
x3dhInitiate_noVerify(myIdentityPrivateEd25519, peerBundle, k) ==
  LET spkPub == peerBundle.signedPrekey.publicKey
      valid == TRUE
      myIKx == ed25519PrivateToX25519(myIdentityPrivateEd25519)
      peerIKx == ed25519PublicToX25519(peerBundle.identityKey)
      ek == generateX25519KeyPair(k)
      dh1 == getSharedSecret(myIKx, spkPub)
      dh2 == getSharedSecret(ek.privateKey, peerIKx)
      dh3 == getSharedSecret(ek.privateKey, spkPub)
      hasOpk == peerBundle.oneTimePrekey # Null
      dhConcat == IF hasOpk
                    THEN <<dh1, dh2, dh3,
                           getSharedSecret(ek.privateKey, peerBundle.oneTimePrekey[1].publicKey)>>
                    ELSE <<dh1, dh2, dh3>>
  IN IF ~valid
       THEN [ok |-> FALSE, sharedSecret |-> Null, ephemeralPublic |-> Null, usedOPKId |-> Null]
       ELSE [ok |-> TRUE, sharedSecret |-> x3dhKDF(dhConcat), ephemeralPublic |-> ek.publicKey,
             usedOPKId |-> IF hasOpk THEN <<peerBundle.oneTimePrekey[1].id>> ELSE Null]

x3dhInitiate(myIdentityPrivateEd25519, peerBundle, k) ==
  LET spkPub == peerBundle.signedPrekey.publicKey
      valid == edVerify(peerBundle.signedPrekey.signature, spkPub, peerBundle.identityKey)
      myIKx == ed25519PrivateToX25519(myIdentityPrivateEd25519)
      peerIKx == ed25519PublicToX25519(peerBundle.identityKey)
      ek == generateX25519KeyPair(k)
      dh1 == getSharedSecret(myIKx, spkPub)
      dh2 == getSharedSecret(ek.privateKey, peerIKx)
      dh3 == getSharedSecret(ek.privateKey, spkPub)
      hasOpk == peerBundle.oneTimePrekey # Null
      dhConcat == IF hasOpk
                    THEN <<dh1, dh2, dh3,
                           getSharedSecret(ek.privateKey, peerBundle.oneTimePrekey[1].publicKey)>>
                    ELSE <<dh1, dh2, dh3>>
  IN IF ~valid
       THEN [ok |-> FALSE, sharedSecret |-> Null, ephemeralPublic |-> Null, usedOPKId |-> Null]
       ELSE [ok |-> TRUE, sharedSecret |-> x3dhKDF(dhConcat), ephemeralPublic |-> ek.publicKey,
             usedOPKId |-> IF hasOpk THEN <<peerBundle.oneTimePrekey[1].id>> ELSE Null]

\* x3dhRespond concatenating DH2 before DH1
x3dhRespond_swapped(myIdentityPrivateEd25519, mySpkPrivate, myOpkPrivate, peerIdentityEd25519, ephemeralPublic) ==
  LET myIKx == ed25519PrivateToX25519(myIdentityPrivateEd25519)
      peerIKx == ed25519PublicToX25519(peerIdentityEd25519)
      dh1 == getSharedSecret(mySpkPrivate, peerIKx)
      dh2 == getSharedSecret(myIKx, ephemeralPublic)
      dh3 == getSharedSecret(mySpkPrivate, ephemeralPublic)
      dhConcat == IF myOpkPrivate # Null
                    THEN <<dh2, dh1, dh3, getSharedSecret(myOpkPrivate, ephemeralPublic)>>
                    ELSE <<dh2, dh1, dh3>>
  IN x3dhKDF(dhConcat)

x3dhRespond(myIdentityPrivateEd25519, mySpkPrivate, myOpkPrivate, peerIdentityEd25519, ephemeralPublic) ==
  LET myIKx == ed25519PrivateToX25519(myIdentityPrivateEd25519)
      peerIKx == ed25519PublicToX25519(peerIdentityEd25519)
      dh1 == getSharedSecret(mySpkPrivate, peerIKx)
      dh2 == getSharedSecret(myIKx, ephemeralPublic)
      dh3 == getSharedSecret(mySpkPrivate, ephemeralPublic)
      dhConcat == IF myOpkPrivate # Null
                    THEN <<dh1, dh2, dh3, getSharedSecret(myOpkPrivate, ephemeralPublic)>>
                    ELSE <<dh1, dh2, dh3>>
  IN x3dhKDF(dhConcat)

\* ------------------------------------------------------------------------
\* Double Ratchet engine (crypto/doubleRatchet.ts)
\* ------------------------------------------------------------------------
initializeInitiator(sharedSecret, peerSignedPrekey, k) ==
  LET DHs == generateX25519KeyPair(k)
      DHr == peerSignedPrekey
      kd == kdfRK(sharedSecret, getSharedSecret(DHs.privateKey, DHr))
  IN [DHs |-> DHs, DHr |-> DHr, RK |-> kd.rootKey, CKs |-> kd.chainKey, CKr |-> Null,
      Ns |-> 0, Nr |-> 0, PN |-> 0, MKSKIPPED |-> {}]

initializeResponder(sharedSecret, mySignedPrekeyPair) ==
  [DHs |-> mySignedPrekeyPair, DHr |-> Null, RK |-> sharedSecret, CKs |-> Null, CKr |-> Null,
   Ns |-> 0, Nr |-> 0, PN |-> 0, MKSKIPPED |-> {}]

\* k is the RNG draw of the nonce.
ratchetEncrypt(state, plaintext, k) ==
  IF state.CKs = Null
    THEN [ok |-> FALSE, err |-> "SendingChainNotInitialized", header |-> MkHeader(Null, 0, 0),
          nonce |-> Null, ciphertext |-> Null, state |-> state]
    ELSE
      LET kd == kdfCK(state.CKs)
          newState == [state EXCEPT !.CKs = kd.chainKey, !.Ns = state.Ns + 1]
          header == MkHeader(toBase64(state.DHs.publicKey), state.PN, state.Ns)
          nonce == <<"rnd", k>>
          headerJson == stringifyHeader(header)
          ciphertextBuf == aesGcmEncrypt(kd.messageKey, nonce, headerJson, plaintext)
      IN [ok |-> TRUE, err |-> "", header |-> header, nonce |-> toBase64(nonce),
          ciphertext |-> toBase64(ciphertextBuf), state |-> newState]

decryptWithKey(messageKey, header, nonce, ciphertext) ==
  aesGcmDecrypt(messageKey, fromBase64(nonce), stringifyHeader(header), fromBase64(ciphertext))

\* The chain key reached from ck by j successive kdfCK steps.
kdfCKn(ck, j) == <<"ck", ck[2], ck[3] + j>>

\* SkipLoop that files every key under the counter after its own
SkipLoop_shifted(ckr, nr, until, dhHex, skipped) ==
  LET steps == nr .. (until - 1)
      added == {<<<<dhHex, j + 1>>, kdfCK(kdfCKn(ckr, j - nr)).messageKey>> : j \in steps}
  IN [CKr |-> IF until > nr THEN kdfCKn(ckr, until - nr) ELSE ckr,
      Nr |-> IF until > nr THEN until ELSE nr,
      MKSKIPPED |-> skipped \cup added]

\* The while loop of skipMessageKeys: for nr, nr+1, ..., until-1 the message
\* key of the chain key reached so far is stored under "dhHex:nr".
SkipLoop(ckr, nr, until, dhHex, skipped) ==
  LET steps == nr .. (until - 1)
      added == {<<<<dhHex, j>>, kdfCK(kdfCKn(ckr, j - nr)).messageKey>> : j \in steps}
      kept == {e \in skipped : ~(e[1][1] = dhHex /\ e[1][2] \in steps)}
  IN [CKr |-> IF until > nr THEN kdfCKn(ckr, until - nr) ELSE ckr,
      Nr |-> IF until > nr THEN until ELSE nr,
      MKSKIPPED |-> kept \cup added]

\* skipMessageKeys rejecting a gap of exactly MAX_SKIP as well
skipMessageKeys_atLeast(state, until) ==
  IF state.CKr = Null \/ state.DHr = Null
    THEN [ok |-> TRUE, state |-> state]
    ELSE IF until - state.Nr >= MAX_SKIP
      THEN [ok |-> FALSE, state |-> state]
      ELSE LET r == SkipLoop(state.CKr, state.Nr, until, bytesToHex(state.DHr), state.MKSKIPPED)
           IN [ok |-> TRUE,
               state |-> [state EXCEPT !.CKr = r.CKr, !.Nr = r.Nr, !.MKSKIPPED = r.MKSKIPPED]]

skipMessageKeys(state, until) ==
  IF state.CKr = Null \/ state.DHr = Null
    THEN [ok |-> TRUE, state |-> state]
    ELSE IF until - state.Nr > MAX_SKIP
      THEN [ok |-> FALSE, state |-> state]
      ELSE LET r == SkipLoop(state.CKr, state.Nr, until, bytesToHex(state.DHr), state.MKSKIPPED)
           IN [ok |-> TRUE,
               state |-> [state EXCEPT !.CKr = r.CKr, !.Nr = r.Nr, !.MKSKIPPED = r.MKSKIPPED]]

DecryptError(state, kind) == [ok |-> FALSE, err |-> kind, plaintext |-> "", state |-> state]

\* dhRatchetStep that derives the receiving chain only
dhRatchetStep_noSendingChain(s, headerDhPub, k) ==
  LET kd1 == kdfRK(s.RK, getSharedSecret(s.DHs.privateKey, headerDhPub))
      newDHs == generateX25519KeyPair(k)
  IN [s EXCEPT !.PN = s.Ns, !.Ns = 0, !.Nr = 0, !.DHr = headerDhPub,
               !.RK = kd1.rootKey, !.CKr = kd1.chainKey, !.DHs = newDHs]

\* dhRatchetStep that keeps the old sending key pair for the new sending chain
dhRatchetStep_keepDHs(s, headerDhPub, k) ==
  LET kd1 == kdfRK(s.RK, getSharedSecret(s.DHs.privateKey, headerDhPub))
      kd2 == kdfRK(kd1.rootKey, getSharedSecret(s.DHs.privateKey, headerDhPub))
  IN [s EXCEPT !.PN = s.Ns, !.Ns = 0, !.Nr = 0, !.DHr = headerDhPub,
               !.RK = kd2.rootKey, !.CKr = kd1.chainKey, !.CKs = kd2.chainKey]

\* The DH ratchet step of ratchetDecrypt, applied to the state left by the
\* previous-chain skip; k is the RNG draw of the new sending key pair.
dhRatchetStep(s, headerDhPub, k) ==
  LET kd1 == kdfRK(s.RK, getSharedSecret(s.DHs.privateKey, headerDhPub))
      newDHs == generateX25519KeyPair(k)
      kd2 == kdfRK(kd1.rootKey, getSharedSecret(newDHs.privateKey, headerDhPub))
  IN [s EXCEPT !.PN = s.Ns, !.Ns = 0, !.Nr = 0, !.DHr = headerDhPub,
               !.RK = kd2.rootKey, !.CKr = kd1.chainKey, !.DHs = newDHs, !.CKs = kd2.chainKey]

\* ratchetDecrypt that makes the DH ratchet step without skipping to the end
\* of the previous receiving chain
ratchetDecrypt_noPreviousSkip(state, header, nonce, ciphertext, k) ==
  LET headerDhPub == fromBase64(header.dh)
      headerDhHex == bytesToHex(headerDhPub)
      skipKey == <<headerDhHex, header.n>>
  IN IF MapHas(state.MKSKIPPED, skipKey)
       THEN LET d == decryptWithKey(MapGet(state.MKSKIPPED, skipKey), header, nonce, ciphertext)
            IN IF d.ok
                 THEN [ok |-> TRUE, err |-> "", plaintext |-> d.pt,
                       state |-> [state EXCEPT !.MKSKIPPED = MapDelete(state.MKSKIPPED, skipKey)]]
                 ELSE DecryptError(state, "DecryptFailed")
       ELSE
         LET currentDHrHex == IF state.DHr # Null THEN bytesToHex(state.DHr) ELSE Null
             needStep == headerDhHex # currentDHrHex
             stepped == IF needStep THEN dhRatchetStep(state, headerDhPub, k) ELSE state
             cur == skipMessageKeys(stepped, header.n)
         IN IF ~cur.ok THEN DecryptError(state, "TooManySkipped")
            ELSE IF cur.state.CKr = Null THEN DecryptError(state, "ReceivingChainNotInitialized")
            ELSE
              LET kd == kdfCK(cur.state.CKr)
                  d == decryptWithKey(kd.messageKey, header, nonce, ciphertext)
              IN IF d.ok
                   THEN [ok |-> TRUE, err |-> "", plaintext |-> d.pt,
                         state |-> [cur.state EXCEPT !.CKr = kd.chainKey, !.Nr = cur.state.Nr + 1]]
                   ELSE DecryptError(state, "DecryptFailed")

\* ratchetDecrypt that leaves a skipped key in the map after using it
ratchetDecrypt_keepSkipped(state, header, nonce, ciphertext, k) ==
  LET headerDhPub == fromBase64(header.dh)
      headerDhHex == bytesToHex(headerDhPub)
      skipKey == <<headerDhHex, header.n>>
  IN IF MapHas(state.MKSKIPPED, skipKey)
       THEN LET d == decryptWithKey(MapGet(state.MKSKIPPED, skipKey), header, nonce, ciphertext)
            IN IF d.ok
                 THEN [ok |-> TRUE, err |-> "", plaintext |-> d.pt, state |-> state]
                 ELSE DecryptError(state, "DecryptFailed")
       ELSE
         LET currentDHrHex == IF state.DHr # Null THEN bytesToHex(state.DHr) ELSE Null
             needStep == headerDhHex # currentDHrHex
             prev == IF needStep /\ state.CKr # Null /\ state.DHr # Null
                       THEN skipMessageKeys(state, header.pn)
                       ELSE [ok |-> TRUE, state |-> state]
             stepped == IF needStep THEN dhRatchetStep(prev.state, headerDhPub, k) ELSE state
             cur == skipMessageKeys(stepped, header.n)
         IN IF ~prev.ok THEN DecryptError(state, "TooManySkipped")
            ELSE IF ~cur.ok THEN DecryptError(state, "TooManySkipped")
            ELSE IF cur.state.CKr = Null THEN DecryptError(state, "ReceivingChainNotInitialized")
            ELSE
              LET kd == kdfCK(cur.state.CKr)
                  d == decryptWithKey(kd.messageKey, header, nonce, ciphertext)
              IN IF d.ok
                   THEN [ok |-> TRUE, err |-> "", plaintext |-> d.pt,
                         state |-> [cur.state EXCEPT !.CKr = kd.chainKey, !.Nr = cur.state.Nr + 1]]
                   ELSE DecryptError(state, "DecryptFailed")

ratchetDecrypt(state, header, nonce, ciphertext, k) ==
  LET headerDhPub == fromBase64(header.dh)
      headerDhHex == bytesToHex(headerDhPub)
      skipKey == <<headerDhHex, header.n>>
  IN IF MapHas(state.MKSKIPPED, skipKey)
       THEN LET d == decryptWithKey(MapGet(state.MKSKIPPED, skipKey), header, nonce, ciphertext)
            IN IF d.ok
                 THEN [ok |-> TRUE, err |-> "", plaintext |-> d.pt,
                       state |-> [state EXCEPT !.MKSKIPPED = MapDelete(state.MKSKIPPED, skipKey)]]
                 ELSE DecryptError(state, "DecryptFailed")
       ELSE
         LET currentDHrHex == IF state.DHr # Null THEN bytesToHex(state.DHr) ELSE Null
             needStep == headerDhHex # currentDHrHex
             prev == IF needStep /\ state.CKr # Null /\ state.DHr # Null
                       THEN skipMessageKeys(state, header.pn)
                       ELSE [ok |-> TRUE, state |-> state]
             stepped == IF needStep THEN dhRatchetStep(prev.state, headerDhPub, k) ELSE state
             cur == skipMessageKeys(stepped, header.n)
         IN IF ~prev.ok THEN DecryptError(state, "TooManySkipped")
            ELSE IF ~cur.ok THEN DecryptError(state, "TooManySkipped")
            ELSE IF cur.state.CKr = Null THEN DecryptError(state, "ReceivingChainNotInitialized")
            ELSE
              LET kd == kdfCK(cur.state.CKr)
                  d == decryptWithKey(kd.messageKey, header, nonce, ciphertext)
              IN IF d.ok
                   THEN [ok |-> TRUE, err |-> "", plaintext |-> d.pt,
                         state |-> [cur.state EXCEPT !.CKr = kd.chainKey, !.Nr = cur.state.Nr + 1]]
                   ELSE DecryptError(state, "DecryptFailed")

\* ------------------------------------------------------------------------
\* The same engine on objects.  A RatchetState is an object whose MKSKIPPED
\* field refers to a Map object; objs is the sequence of the objects
\* allocated so far and an object's address is its index.  A spread
\* { ...state } allocates an object with the same fields, the reference to
\* the Map included; new Map(m) allocates a Map with the entries of m; an
\* assignment to a field, Map.set and Map.delete change the object they are
\* applied to in place.  Each operator returns the objects as the call
\* leaves them, on success and on a throw alike.
\* ------------------------------------------------------------------------
\* The ratchet state at an address, as a value
Deref(objs, ref) == [objs[ref] EXCEPT !.MKSKIPPED = objs[@]]

\* new Map() and the object literal of initializeInitiator / initializeResponder
initializeRef(objs, state) ==
  [objs |-> Append(Append(objs, state.MKSKIPPED), [state EXCEPT !.MKSKIPPED = Len(objs) + 1]),
   state |-> Len(objs) + 2]

\* ratchetEncrypt that puts the counter into the header after incrementing it
ratchetEncryptRef_postIncrement(objs, state, plaintext, k) ==
  LET s == objs[state]
  IN IF s.CKs = Null
       THEN [ok |-> FALSE, err |-> "SendingChainNotInitialized", header |-> MkHeader(Null, 0, 0),
             nonce |-> Null, ciphertext |-> Null, objs |-> objs, state |-> 0]
       ELSE
         LET kd == kdfCK(s.CKs)
             newState == [s EXCEPT !.CKs = kd.chainKey, !.Ns = s.Ns + 1]
             header == MkHeader(toBase64(s.DHs.publicKey), s.PN, newState.Ns)
             nonce == <<"rnd", k>>
             headerJson == stringifyHeader(header)
             ciphertextBuf == aesGcmEncrypt(kd.messageKey, nonce, headerJson, plaintext)
         IN [ok |-> TRUE, err |-> "", header |-> header, nonce |-> toBase64(nonce),
             ciphertext |-> toBase64(ciphertextBuf),
             objs |-> Append(objs, newState), state |-> Len(objs) + 1]

ratchetEncryptRef(objs, state, plaintext, k) ==
  LET s == objs[state]
  IN IF s.CKs = Null
       THEN [ok |-> FALSE, err |-> "SendingChainNotInitialized", header |-> MkHeader(Null, 0, 0),
             nonce |-> Null, ciphertext |-> Null, objs |-> objs, state |-> 0]
       ELSE
         LET kd == kdfCK(s.CKs)
             newState == [s EXCEPT !.CKs = kd.chainKey, !.Ns = s.Ns + 1]
             header == MkHeader(toBase64(s.DHs.publicKey), s.PN, s.Ns)
             nonce == <<"rnd", k>>
             headerJson == stringifyHeader(header)
             ciphertextBuf == aesGcmEncrypt(kd.messageKey, nonce, headerJson, plaintext)
         IN [ok |-> TRUE, err |-> "", header |-> header, nonce |-> toBase64(nonce),
             ciphertext |-> toBase64(ciphertextBuf),
             objs |-> Append(objs, newState), state |-> Len(objs) + 1]

\* skipMessageKeys: the object passed in when there is nothing to skip from,
\* else a new object with a new Map holding the old entries and the new keys.
skipMessageKeysRef(objs, state, until) ==
  LET s == objs[state]
  IN IF s.CKr = Null \/ s.DHr = Null
       THEN [ok |-> TRUE, objs |-> objs, state |-> state]
       ELSE IF until - s.Nr > MAX_SKIP
         THEN [ok |-> FALSE, objs |-> objs, state |-> state]
         ELSE LET r == SkipLoop(s.CKr, s.Nr, until, bytesToHex(s.DHr), objs[s.MKSKIPPED])
                  newSkipped == Len(objs) + 1
              IN [ok |-> TRUE,
                  objs |-> Append(Append(objs, r.MKSKIPPED),
                                  [s EXCEPT !.CKr = r.CKr, !.Nr = r.Nr, !.MKSKIPPED = newSkipped]),
                  state |-> Len(objs) + 2]

DecryptErrorRef(objs, kind) ==
  [ok |-> FALSE, err |-> kind, plaintext |-> "", objs |-> objs, state |-> 0]

\* ratchetDecrypt with  let currentState = state  in place of the copy
ratchetDecryptRef_alias(objs, state, header, nonce, ciphertext, k) ==
  LET s == objs[state]
      headerDhPub == fromBase64(header.dh)
      headerDhHex == bytesToHex(headerDhPub)
      skipKey == <<headerDhHex, header.n>>
  IN IF MapHas(objs[s.MKSKIPPED], skipKey)
       THEN LET skippedMk == MapGet(objs[s.MKSKIPPED], skipKey)
                newSkipped == Len(objs) + 1
                copied == Append(objs, objs[s.MKSKIPPED])
                deleted == [copied EXCEPT ![newSkipped] = MapDelete(@, skipKey)]
                d == decryptWithKey(skippedMk, header, nonce, ciphertext)
            IN IF d.ok
                 THEN [ok |-> TRUE, err |-> "", plaintext |-> d.pt,
                       objs |-> Append(deleted, [s EXCEPT !.MKSKIPPED = newSkipped]),
                       state |-> Len(objs) + 2]
                 ELSE DecryptErrorRef(deleted, "DecryptFailed")
       ELSE
         LET currentState == state
             c == objs[currentState]
             currentDHrHex == IF c.DHr # Null THEN bytesToHex(c.DHr) ELSE Null
             needStep == headerDhHex # currentDHrHex
             prev == IF needStep /\ c.CKr # Null /\ c.DHr # Null
                       THEN skipMessageKeysRef(objs, currentState, header.pn)
                       ELSE [ok |-> TRUE, objs |-> objs, state |-> currentState]
             stepped == IF needStep
                          THEN [prev.objs EXCEPT ![prev.state] = dhRatchetStep(@, headerDhPub, k)]
                          ELSE prev.objs
             cur == skipMessageKeysRef(stepped, prev.state, header.n)
         IN IF ~prev.ok THEN DecryptErrorRef(prev.objs, "TooManySkipped")
            ELSE IF ~cur.ok THEN DecryptErrorRef(cur.objs, "TooManySkipped")
            ELSE IF cur.objs[cur.state].CKr = Null
              THEN DecryptErrorRef(cur.objs, "ReceivingChainNotInitialized")
            ELSE
              LET kd == kdfCK(cur.objs[cur.state].CKr)
                  advanced == [cur.objs EXCEPT ![cur.state].CKr = kd.chainKey,
                                               ![cur.state].Nr = @ + 1]
                  d == decryptWithKey(kd.messageKey, header, nonce, ciphertext)
              IN IF d.ok
                   THEN [ok |-> TRUE, err |-> "", plaintext |-> d.pt,
                         objs |-> advanced, state |-> cur.state]
                   ELSE DecryptErrorRef(advanced, "DecryptFailed")

ratchetDecryptRef(objs, state, header, nonce, ciphertext, k) ==
  LET s == objs[state]
      headerDhPub == fromBase64(header.dh)
      headerDhHex == bytesToHex(headerDhPub)
      skipKey == <<headerDhHex, header.n>>
  IN IF MapHas(objs[s.MKSKIPPED], skipKey)
       THEN LET skippedMk == MapGet(objs[s.MKSKIPPED], skipKey)
                newSkipped == Len(objs) + 1
                copied == Append(objs, objs[s.MKSKIPPED])
                deleted == [copied EXCEPT ![newSkipped] = MapDelete(@, skipKey)]
                d == decryptWithKey(skippedMk, header, nonce, ciphertext)
            IN IF d.ok
                 THEN [ok |-> TRUE, err |-> "", plaintext |-> d.pt,
                       objs |-> Append(deleted, [s EXCEPT !.MKSKIPPED = newSkipped]),
                       state |-> Len(objs) + 2]
                 ELSE DecryptErrorRef(deleted, "DecryptFailed")
       ELSE
         LET currentState == Len(objs) + 2
             copied == Append(Append(objs, objs[s.MKSKIPPED]),
                              [s EXCEPT !.MKSKIPPED = Len(objs) + 1])
             c == copied[currentState]
             currentDHrHex == IF c.DHr # Null THEN bytesToHex(c.DHr) ELSE Null
             needStep == headerDhHex # currentDHrHex
             prev == IF needStep /\ c.CKr # Null /\ c.DHr # Null
                       THEN skipMessageKeysRef(copied, currentState, header.pn)
                       ELSE [ok |-> TRUE, objs |-> copied, state |-> currentState]
             stepped == IF needStep
                          THEN [prev.objs EXCEPT ![prev.state] = dhRatchetStep(@, headerDhPub, k)]
                          ELSE prev.objs
             cur == skipMessageKeysRef(stepped, prev.state, header.n)
         IN IF ~prev.ok THEN DecryptErrorRef(prev.objs, "TooManySkipped")
            ELSE IF ~cur.ok THEN DecryptErrorRef(cur.objs, "TooManySkipped")
            ELSE IF cur.objs[cur.state].CKr = Null
              THEN DecryptErrorRef(cur.objs, "ReceivingChainNotInitialized")
            ELSE
              LET kd == kdfCK(cur.objs[cur.state].CKr)
                  advanced == [cur.objs EXCEPT ![cur.state].CKr = kd.chainKey,
                                               ![cur.state].Nr = @ + 1]
                  d == decryptWithKey(kd.messageKey, header, nonce, ciphertext)
              IN IF d.ok
                   THEN [ok |-> TRUE, err |-> "", plaintext |-> d.pt,
                         objs |-> advanced, state |-> cur.state]
                   ELSE DecryptErrorRef(advanced, "DecryptFailed")

\* ------------------------------------------------------------------------
\* Prekey store (crypto/sessionManager.ts).  nowMs is the value of Date.now(),
\* k the number of RNG draws made before the call.
\* ------------------------------------------------------------------------
\* generatePrekeyBundle whose nextOPKId is the id of the last one-time prekey
generatePrekeyBundle_short(identityPrivateEd25519, nowMs, k) ==
  LET spk == generateX25519KeyPair(k + 1)
      spkId == nowMs
  IN [signedPrekey |-> [id |-> spkId, publicKey |-> spk.publicKey,
                        privateKey |-> spk.privateKey, createdAt |-> nowMs],
      oneTimePrekeys |-> [i \in 1..OPK_BATCH_SIZE |->
                            LET opk == generateX25519KeyPair(k + 1 + i)
                            IN [id |-> spkId + (i - 1) + 1, publicKey |-> opk.publicKey,
                                privateKey |-> opk.privateKey]],
      nextOPKId |-> spkId + OPK_BATCH_SIZE]

generatePrekeyBundle(identityPrivateEd25519, nowMs, k) ==
  LET spk == generateX25519KeyPair(k + 1)
      spkId == nowMs
  IN [signedPrekey |-> [id |-> spkId, publicKey |-> spk.publicKey,
                        privateKey |-> spk.privateKey, createdAt |-> nowMs],
      oneTimePrekeys |-> [i \in 1..OPK_BATCH_SIZE |->
                            LET opk == generateX25519KeyPair(k + 1 + i)
                            IN [id |-> spkId + (i - 1) + 1, publicKey |-> opk.publicKey,
                                privateKey |-> opk.privateKey]],
      nextOPKId |-> spkId + OPK_BATCH_SIZE + 1]

\* generateAdditionalOPKs that puts the new keys in front of the stored ones
generateAdditionalOPKs_prepend(store, count, k) ==
  LET newKeys == [i \in 1..count |->
                    LET opk == generateX25519KeyPair(k + i)
                    IN [id |-> store.nextOPKId + (i - 1), publicKey |-> opk.publicKey,
                        privateKey |-> opk.privateKey]]
  IN [store |-> [store EXCEPT !.oneTimePrekeys = newKeys \o store.oneTimePrekeys,
                              !.nextOPKId = store.nextOPKId + count],
      newPublicKeys |-> [i \in 1..count |-> [id |-> newKeys[i].id, publicKey |-> newKeys[i].publicKey]]]

\* generateAdditionalOPKs that leaves nextOPKId where it was
generateAdditionalOPKs_noAdvance(store, count, k) ==
  LET newKeys == [i \in 1..count |->
                    LET opk == generateX25519KeyPair(k + i)
                    IN [id |-> store.nextOPKId + (i - 1), publicKey |-> opk.publicKey,
                        privateKey |-> opk.privateKey]]
  IN [store |-> [store EXCEPT !.oneTimePrekeys = store.oneTimePrekeys \o newKeys,
                              !.nextOPKId = store.nextOPKId],
      newPublicKeys |-> [i \in 1..count |-> [id |-> newKeys[i].id, publicKey |-> newKeys[i].publicKey]]]

generateAdditionalOPKs(store, count, k) ==
  LET newKeys == [i \in 1..count |->
                    LET opk == generateX25519KeyPair(k + i)
                    IN [id |-> store.nextOPKId + (i - 1), publicKey |-> opk.publicKey,
                        privateKey |-> opk.privateKey]]
  IN [store |-> [store EXCEPT !.oneTimePrekeys = store.oneTimePrekeys \o newKeys,
                              !.nextOPKId = store.nextOPKId + count],
      newPublicKeys |-> [i \in 1..count |-> [id |-> newKeys[i].id, publicKey |-> newKeys[i].publicKey]]]

\* Array.findIndex: the first index whose entry has the id, 0 when none has.
findIndex(keys, opkId) ==
  IF \E i \in 1..Len(keys) : keys[i].id = opkId
    THEN CHOOSE i \in 1..Len(keys) :
           keys[i].id = opkId /\ \A j \in 1..(i - 1) : keys[j].id # opkId
    ELSE 0

\* Array.splice(idx, 1)
splice(keys, idx) == [i \in 1..(Len(keys) - 1) |-> IF i < idx THEN keys[i] ELSE keys[i + 1]]

\* consumeLocalOPK that hands the key out and leaves it in the store
consumeLocalOPK_keep(store, opkId) ==
  LET idx == findIndex(store.oneTimePrekeys, opkId)
  IN IF idx = 0 THEN Null
     ELSE <<[privateKey |-> store.oneTimePrekeys[idx].privateKey, updatedStore |-> store]>>

consumeLocalOPK(store, opkId) ==
  LET idx == findIndex(store.oneTimePrekeys, opkId)
  IN IF idx = 0 THEN Null
     ELSE <<[privateKey |-> store.oneTimePrekeys[idx].privateKey,
             updatedStore |-> [store EXCEPT !.oneTimePrekeys = splice(store.oneTimePrekeys, idx)]]>>

\* The ids of the one-time prekeys in a store
OpkIds(store) == {store.oneTimePrekeys[i].id : i \in 1..Len(store.oneTimePrekeys)}

getSignedPrekeyPair(store) ==
  [publicKey |-> store.signedPrekey.publicKey, privateKey |-> store.signedPrekey.privateKey]

\* The signed-prekey rotation of ensurePrekeysUploaded
rotateSignedPrekey(store, nowMs, k) ==
  LET newPriv == <<"x", k + 1>>
  IN [store EXCEPT !.signedPrekey = [id |-> nowMs, publicKey |-> getPublicKey(newPriv),
                                     privateKey |-> newPriv, createdAt |-> nowMs]]

\* ------------------------------------------------------------------------
\* Ratchet state and prekey store (de)serialization, secure storage
\* (crypto/sessionManager.ts).  A device's storage is a set of <<key, value>>.
\* ------------------------------------------------------------------------
SESSION_PREFIX == "signal:session:"

PREKEY_STORE_KEY == <<"signal:prekeys">>

JSONstringify(v) == <<"json", v>>

JSONparse(raw) == raw[2]

secureGet(st, key) == IF MapHas(st, key) THEN MapGet(st, key) ELSE Null

secureSet(st, key, value) == MapSet(st, key, value)

secureDelete(st, key) == MapDelete(st, key)

\* serializeState that does not write the previous chain length
serializeState_noPN(state) ==
  [DHs_pub |-> toBase64(state.DHs.publicKey),
   DHs_priv |-> toBase64(state.DHs.privateKey),
   DHr |-> IF state.DHr # Null THEN toBase64(state.DHr) ELSE Null,
   RK |-> toBase64(state.RK),
   CKs |-> IF state.CKs # Null THEN toBase64(state.CKs) ELSE Null,
   CKr |-> IF state.CKr # Null THEN toBase64(state.CKr) ELSE Null,
   Ns |-> state.Ns, Nr |-> state.Nr, PN |-> 0,
   MKSKIPPED |-> {<<e[1], toBase64(e[2])>> : e \in state.MKSKIPPED}]

serializeState(state) ==
  [DHs_pub |-> toBase64(state.DHs.publicKey),
   DHs_priv |-> toBase64(state.DHs.privateKey),
   DHr |-> IF state.DHr # Null THEN toBase64(state.DHr) ELSE Null,
   RK |-> toBase64(state.RK),
   CKs |-> IF state.CKs # Null THEN toBase64(state.CKs) ELSE Null,
   CKr |-> IF state.CKr # Null THEN toBase64(state.CKr) ELSE Null,
   Ns |-> state.Ns, Nr |-> state.Nr, PN |-> state.PN,
   MKSKIPPED |-> {<<e[1], toBase64(e[2])>> : e \in state.MKSKIPPED}]

\* deserializeState that does not restore the skipped message keys
deserializeState_noSkipped(s) ==
  [DHs |-> [publicKey |-> fromBase64(s.DHs_pub), privateKey |-> fromBase64(s.DHs_priv)],
   DHr |-> IF s.DHr # Null THEN fromBase64(s.DHr) ELSE Null,
   RK |-> fromBase64(s.RK),
   CKs |-> IF s.CKs # Null THEN fromBase64(s.CKs) ELSE Null,
   CKr |-> IF s.CKr # Null THEN fromBase64(s.CKr) ELSE Null,
   Ns |-> s.Ns, Nr |-> s.Nr, PN |-> s.PN,
   MKSKIPPED |-> {}]

deserializeState(s) ==
  [DHs |-> [publicKey |-> fromBase64(s.DHs_pub), privateKey |-> fromBase64(s.DHs_priv)],
   DHr |-> IF s.DHr # Null THEN fromBase64(s.DHr) ELSE Null,
   RK |-> fromBase64(s.RK),
   CKs |-> IF s.CKs # Null THEN fromBase64(s.CKs) ELSE Null,
   CKr |-> IF s.CKr # Null THEN fromBase64(s.CKr) ELSE Null,
   Ns |-> s.Ns, Nr |-> s.Nr, PN |-> s.PN,
   MKSKIPPED |-> {<<e[1], fromBase64(e[2])>> : e \in s.MKSKIPPED}]

\* Position of a public-key hex string in the sort order of Array.sort: the
\* key derived from seedA sorts before the key derived from seedB, and that
\* one before any other.
HexRank(hex) ==
  IF hex = bytesToHex(edGetPublicKey(<<"seedA">>)) THEN 1
  ELSE IF hex = bytesToHex(edGetPublicKey(<<"seedB">>)) THEN 2 ELSE 3

\* sessionKey that does not sort its arguments
sessionKey_asGiven(myPubHex, peerPubHex) == <<SESSION_PREFIX, myPubHex, peerPubHex>>

\* The template string SESSION_PREFIX + sorted[0] + ":" + sorted[1] as the
\* tuple of its parts: hex strings hold no ":", so two keys are equal exactly
\* when their parts are.
sessionKey(myPubHex, peerPubHex) ==
  IF HexRank(myPubHex) <= HexRank(peerPubHex)
    THEN <<SESSION_PREFIX, myPubHex, peerPubHex>>
    ELSE <<SESSION_PREFIX, peerPubHex, myPubHex>>

\* loadSession: <<>> or <<RatchetState>>
loadSession(st, myPubHex, peerPubHex) ==
  LET raw == secureGet(st, sessionKey(myPubHex, peerPubHex))
  IN IF raw = Null THEN Null ELSE <<deserializeState(JSONparse(raw))>>

\* saveSession writing under the key of its arguments as given, unsorted
saveSession_unsorted(st, myPubHex, peerPubHex, state) ==
  secureSet(st, <<SESSION_PREFIX, myPubHex, peerPubHex>>, JSONstringify(serializeState(state)))

saveSession(st, myPubHex, peerPubHex, state) ==
  secureSet(st, sessionKey(myPubHex, peerPubHex), JSONstringify(serializeState(state)))

deleteSession(st, myPubHex, peerPubHex) ==
  secureDelete(st, sessionKey(myPubHex, peerPubHex))

serializePrekeyStore(store) ==
  [signedPrekey |-> [id |-> store.signedPrekey.id,
                     publicKey |-> toBase64(store.signedPrekey.publicKey),
                     privateKey |-> toBase64(store.signedPrekey.privateKey),
                     createdAt |-> store.signedPrekey.createdAt],
   oneTimePrekeys |-> [i \in 1..Len(store.oneTimePrekeys) |->
                         [id |-> store.oneTimePrekeys[i].id,
                          publicKey |-> toBase64(store.oneTimePrekeys[i].publicKey),
                          privateKey |-> toBase64(store.oneTimePrekeys[i].privateKey)]],
   nextOPKId |-> store.nextOPKId]

deserializePrekeyStore(s) ==
  [signedPrekey |-> [id |-> s.signedPrekey.id,
                     publicKey |-> fromBase64(s.signedPrekey.publicKey),
                     privateKey |-> fromBase64(s.signedPrekey.privateKey),
                     createdAt |-> s.signedPrekey.createdAt],
   oneTimePrekeys |-> [i \in 1..Len(s.oneTimePrekeys) |->
                         [id |-> s.oneTimePrekeys[i].id,
                          publicKey |-> fromBase64(s.oneTimePrekeys[i].publicKey),
                          privateKey |-> fromBase64(s.oneTimePrekeys[i].privateKey)]],
   nextOPKId |-> s.nextOPKId]

\* loadPrekeyStore: <<>> or <<LocalPrekeyStore>>
loadPrekeyStore(st) ==
  LET raw == secureGet(st, PREKEY_STORE_KEY)
  IN IF raw = Null THEN Null ELSE <<deserializePrekeyStore(JSONparse(raw))>>

savePrekeyStore(st, store) ==
  secureSet(st, PREKEY_STORE_KEY, JSONstringify(serializePrekeyStore(store)))

\* ------------------------------------------------------------------------
\* Key server (api/keys.ts): per user the uploaded signed prekey,
\* <<>> or <<[id, public_key, signature]>>, and the pool of uploaded one-time
\* prekeys, each handed out once.
\* ------------------------------------------------------------------------
NoKeys == [signed_prekey |-> Null, one_time_prekeys |-> <<>>]

uploadKeys(srv, signed_prekey, one_time_prekeys) ==
  [signed_prekey |-> IF signed_prekey # Null THEN signed_prekey ELSE srv.signed_prekey,
   one_time_prekeys |-> srv.one_time_prekeys \o one_time_prekeys]

\* GET /users/{id}/keys: <<>> when the user has no signed prekey
getBundle(srv, identityHex) ==
  IF srv.signed_prekey = Null THEN Null
  ELSE <<[identity_key |-> identityHex, signed_prekey |-> srv.signed_prekey[1],
          one_time_prekey |-> IF srv.one_time_prekeys # <<>>
                                THEN <<Head(srv.one_time_prekeys)>> ELSE Null]>>

afterGetBundle(srv) ==
  IF srv.signed_prekey # Null /\ srv.one_time_prekeys # <<>>
    THEN [srv EXCEPT !.one_time_prekeys = Tail(srv.one_time_prekeys)]
    ELSE srv

getKeyCount(srv) ==
  [one_time_prekeys_remaining |-> Len(srv.one_time_prekeys),
   signed_prekey_uploaded |-> srv.signed_prekey # Null]

\* ------------------------------------------------------------------------
\* DM envelope (dmE2ee.ts): v1 static-ECDH path and v2 helpers
\* ------------------------------------------------------------------------
DM_E2EE_V1 == 1

DM_E2EE_V2 == 2

AES_GCM_NONCE_BYTES == 12

DM_E2EE_CONTEXT_PREFIX == "paracord:dm-e2ee:v1:"

\* deriveConversationKeyMaterial hashing the shared secret without the
\* channel context
deriveConversationKeyMaterial_noChannel(channelId, myPrivateKeyEd25519, peerPublicKeyEd25519Hex) ==
  LET myPrivateX25519 == ed25519PrivateToX25519(myPrivateKeyEd25519)
      peerPublicX25519 == ed25519PublicToX25519(hexToBytes(peerPublicKeyEd25519Hex))
  IN <<"sha256", <<DM_E2EE_CONTEXT_PREFIX, "">>,
       getSharedSecret(myPrivateX25519, peerPublicX25519)>>

deriveConversationKeyMaterial(channelId, myPrivateKeyEd25519, peerPublicKeyEd25519Hex) ==
  LET myPrivateX25519 == ed25519PrivateToX25519(myPrivateKeyEd25519)
      peerPublicX25519 == ed25519PublicToX25519(hexToBytes(peerPublicKeyEd25519Hex))
  IN <<"sha256", <<DM_E2EE_CONTEXT_PREFIX, channelId>>,
       getSharedSecret(myPrivateX25519, peerPublicX25519)>>

\* k is the RNG draw of the nonce.
encryptV1(channelId, plaintext, myPrivateKeyEd25519, peerPublicKeyEd25519Hex, k) ==
  LET key == deriveConversationKeyMaterial(channelId, myPrivateKeyEd25519, peerPublicKeyEd25519Hex)
      nonce == <<"rnd", k>>
  IN [version |-> DM_E2EE_V1, nonce |-> toBase64(nonce),
      ciphertext |-> toBase64(aesGcmEncrypt(key, nonce, Null, plaintext)), header |-> Null]

\* Number of bytes of a byte string: a nonce drawn by getRandomValues(new
\* Uint8Array(AES_GCM_NONCE_BYTES)) has that many, <<"bytes", n>> is some
\* string of n bytes that no device drew
byteLength(bytes) == IF bytes[1] = "bytes" THEN bytes[2] ELSE AES_GCM_NONCE_BYTES

decryptV1(channelId, payload, myPrivateKeyEd25519, peerPublicKeyEd25519Hex) ==
  LET key == deriveConversationKeyMaterial(channelId, myPrivateKeyEd25519, peerPublicKeyEd25519Hex)
      nonce == fromBase64(payload.nonce)
      d == aesGcmDecrypt(key, nonce, Null, fromBase64(payload.ciphertext))
  IN IF byteLength(nonce) # AES_GCM_NONCE_BYTES THEN [ok |-> FALSE, pt |-> "", err |-> "InvalidNonce"]
     ELSE [ok |-> d.ok, pt |-> d.pt, err |-> IF d.ok THEN "" ELSE "DecryptFailed"]

\* fetchPeerBundle applied to the server's answer: <<>> or <<PrekeyBundle>>
fetchPeerBundle(data) ==
  IF data = Null THEN Null
  ELSE <<[identityKey |-> hexToBytes(data[1].identity_key),
          signedPrekey |-> [id |-> data[1].signed_prekey.id,
                            publicKey |-> fromBase64(data[1].signed_prekey.public_key),
                            signature |-> fromBase64(data[1].signed_prekey.signature)],
          oneTimePrekey |-> IF data[1].one_time_prekey # Null
                              THEN <<[id |-> data[1].one_time_prekey[1].id,
                                      publicKey |-> fromBase64(data[1].one_time_prekey[1].public_key)]>>
                              ELSE Null]>>

getMyPublicKeyHex(myPrivateKeyEd25519) == bytesToHex(edGetPublicKey(myPrivateKeyEd25519))

\* The responder bootstrap of decryptDmMessage from a loaded prekey store:
\* optional OPK consumption, x3dhRespond, initializeResponder.
responderBootstrap(myPrivateKeyEd25519, prekeyStore, header) ==
  LET peerEdPub == fromBase64(header.ik)
      ephemeralPub == fromBase64(header.ek)
      consumedOpk == IF header.opk_id # Null THEN consumeLocalOPK(prekeyStore, header.opk_id[1])
                     ELSE Null
      opkPrivate == IF consumedOpk # Null THEN consumedOpk[1].privateKey ELSE Null
      updatedStore == IF consumedOpk # Null THEN consumedOpk[1].updatedStore ELSE prekeyStore
      sharedSecret == x3dhRespond(myPrivateKeyEd25519, prekeyStore.signedPrekey.privateKey,
                                  opkPrivate, peerEdPub, ephemeralPub)
  IN [session |-> initializeResponder(sharedSecret, getSignedPrekeyPair(prekeyStore)),
      opkPrivate |-> opkPrivate, updatedStore |-> updatedStore]

\* ------------------------------------------------------------------------
\* State
\* ------------------------------------------------------------------------
VARIABLES
  rng,        \* number of values drawn from the random generator so far
  x3,         \* result of the X3DH run that set the two ratchet states up
  rstate,     \* party -> <<>> or <<RatchetState>>: each party's ratchet state
  flight,     \* ratchet messages sent and not yet delivered unmodified
  delivered,  \* ratchet messages delivered unmodified
  inOrder,    \* so far every message was delivered in sending order before its receiver's next send
  last,       \* outcome of the most recent ratchetEncrypt / ratchetDecrypt
  now,        \* Date.now()
  pstore,     \* <<>> or <<LocalPrekeyStore>>: a prekey store held in memory
  consumed,   \* ids of the one-time prekeys consumeLocalOPK has handed out
  plast,      \* outcome of the most recent prekey-store operation
  storage,    \* party -> that device's secure storage, a set of <<key, value>>
  server,     \* party -> the keys the key server holds for that user
  calls,      \* the encryptDm / decryptDm calls started so far, each with its position
  net,        \* the payloads sent so far
  heap        \* the objects the ratchet states in use consist of, and who holds which

ratVars == <<x3, rstate, flight, delivered, inOrder, last, heap>>

storeVars == <<now, pstore, consumed, plast>>

envVars == <<storage, server, calls, net>>

vars == <<rng, x3, rstate, flight, delivered, inOrder, last, now, pstore, consumed, plast,
          storage, server, calls, net, heap>>

\* ------------------------------------------------------------------------
\* Bounds
\* ------------------------------------------------------------------------
MaxSends == 3

Party == {"A", "B"}

Peer(p) == IF p = "A" THEN "B" ELSE "A"

\* Ed25519 identity seeds of the two parties
EdSeed(p) == IF p = "A" THEN <<"seedA">> ELSE <<"seedB">>

Plaintexts == {"msg1", "reply"}

NoLast ==
  [op |-> "none", party |-> "", ok |-> TRUE, err |-> "", plaintext |-> "", sent |-> "",
   tamper |-> "none", seq |-> 0, pre |-> Null, header |-> MkHeader(Null, 0, 0)]

\* ------------------------------------------------------------------------
\* Ratchet-level conversation: the two states are set up as in
\* setupAliceBobSessions (doubleRatchet.test.ts), then either side applies
\* ratchetEncrypt / ratchetDecrypt. A is the initiator, B the responder.
\* ------------------------------------------------------------------------
\* No object allocated, no reference held
NoHeap == [objs |-> <<>>, at |-> [p \in Party |-> 0], seen |-> [p \in Party |-> Null]]

NoPLast == [op |-> "none", id |-> 0, count |-> 0, result |-> Null, before |-> Null]

\* Nothing has happened yet: no ratchet state, no prekey store, empty devices
\* and an empty key server.
Init ==
  /\ rng = 0
  /\ x3 = [done |-> FALSE, hasOpk |-> FALSE, initiator |-> Null, responder |-> Null]
  /\ rstate = [p \in Party |-> Null]
  /\ flight = {}
  /\ delivered = {}
  /\ inOrder = TRUE
  /\ last = NoLast
  /\ now = 1
  /\ pstore = Null
  /\ consumed = {}
  /\ plast = NoPLast
  /\ storage = [p \in Party |-> {}]
  /\ server = [p \in Party |-> NoKeys]
  /\ calls = <<>>
  /\ net = {}
  /\ heap = NoHeap

setupAliceBobSessions(hasOpk) ==
  /\ ~x3.done
  /\ LET spk == generateX25519KeyPair(rng + 1)
         opk == generateX25519KeyPair(rng + 2)
         bundle == [identityKey |-> edGetPublicKey(EdSeed("B")),
                    signedPrekey |-> [id |-> 1, publicKey |-> spk.publicKey,
                                      signature |-> edSign(spk.publicKey, EdSeed("B"))],
                    oneTimePrekey |-> IF hasOpk THEN <<[id |-> 100, publicKey |-> opk.publicKey]>>
                                      ELSE Null]
         x3dhResult == x3dhInitiate(EdSeed("A"), bundle, rng + 3)
         bobSecret == x3dhRespond(EdSeed("B"), spk.privateKey,
                                  IF hasOpk THEN opk.privateKey ELSE Null,
                                  edGetPublicKey(EdSeed("A")), x3dhResult.ephemeralPublic)
     IN /\ x3dhResult.ok
        /\ x3' = [done |-> TRUE, hasOpk |-> hasOpk,
                  initiator |-> x3dhResult.sharedSecret, responder |-> bobSecret]
        /\ rstate' = [p \in Party |->
              IF p = "A"
                THEN <<initializeInitiator(x3dhResult.sharedSecret, bundle.signedPrekey.publicKey, rng + 4)>>
                ELSE <<initializeResponder(bobSecret, spk)>>]
  /\ rng' = rng + 4
  /\ UNCHANGED <<flight, delivered, inOrder, last, storeVars, envVars, heap>>

NextSeq == Cardinality(flight) + Cardinality(delivered) + 1

RSend(p, pt) ==
  /\ x3.done
  /\ NextSeq <= MaxSends
  /\ LET r == ratchetEncrypt(rstate[p][1], pt, rng + 1)
     IN /\ last' = [NoLast EXCEPT !.op = "encrypt", !.party = p, !.ok = r.ok, !.err = r.err,
                                  !.sent = pt, !.pre = rstate[p], !.header = r.header,
                                  !.seq = IF r.ok THEN NextSeq ELSE 0]
        /\ IF r.ok
             THEN /\ rstate' = [rstate EXCEPT ![p] = <<r.state>>]
                  /\ flight' = flight \cup {[seq |-> NextSeq, from |-> p, to |-> Peer(p),
                                             header |-> r.header, nonce |-> r.nonce,
                                             ciphertext |-> r.ciphertext, pt |-> pt]}
                  /\ inOrder' = (inOrder /\ ~\E m \in flight : m.to = p)
                  /\ rng' = rng + 1
             ELSE UNCHANGED <<rstate, flight, inOrder, rng>>
  /\ UNCHANGED <<x3, delivered, storeVars, envVars, heap>>

\* What the receiver is handed: the message as sent, or with one byte of the
\* ciphertext or one header field changed.
Tampers == {"none", "ciphertext", "dh", "pn", "n", "n_far"}

OtherDh(m) ==
  LET spkPub == toBase64(getPublicKey(<<"x", 1>>))
  IN IF m.header.dh # spkPub THEN spkPub ELSE toBase64(getPublicKey(<<"x", 0>>))

Tampered(m, t) ==
  CASE t = "none" -> m
    [] t = "ciphertext" -> [m EXCEPT !.ciphertext = toBase64([fromBase64(m.ciphertext) EXCEPT !.flipped = TRUE])]
    [] t = "dh" -> [m EXCEPT !.header.dh = OtherDh(m)]
    [] t = "pn" -> [m EXCEPT !.header.pn = m.header.pn + 1]
    [] t = "n" -> [m EXCEPT !.header.n = m.header.n + 1]
    [] t = "n_far" -> [m EXCEPT !.header.n = m.header.n + MAX_SKIP + MaxSends + 1]

RDeliver(m, t) ==
  /\ m \in flight
  /\ LET w == Tampered(m, t)
         to == m.to
         r == ratchetDecrypt(rstate[to][1], w.header, w.nonce, w.ciphertext, rng + 1)
     IN /\ last' = [op |-> "decrypt", party |-> to, ok |-> r.ok, err |-> r.err,
                    plaintext |-> r.plaintext, sent |-> m.pt, tamper |-> t, seq |-> m.seq,
                    pre |-> rstate[to], header |-> w.header]
        /\ IF r.ok
             THEN /\ rstate' = [rstate EXCEPT ![to] = <<r.state>>]
                  /\ rng' = rng + 1
             ELSE UNCHANGED <<rstate, rng>>
        /\ IF t = "none" /\ r.ok
             THEN /\ flight' = flight \ {m}
                  /\ delivered' = delivered \cup {m}
                  /\ inOrder' = (inOrder /\ \A m2 \in flight : m2.seq >= m.seq)
             ELSE UNCHANGED <<flight, delivered, inOrder>>
  /\ UNCHANGED <<x3, storeVars, envVars, heap>>

RNext ==
  \/ \E hasOpk \in BOOLEAN : setupAliceBobSessions(hasOpk)
  \/ \E p \in Party, pt \in Plaintexts : RSend(p, pt)
  \/ \E m \in flight, t \in Tampers : RDeliver(m, t)

SpecRatchet == Init /\ [][RNext]_vars

\* ------------------------------------------------------------------------
\* Conversation across restarts: as above, and at any point both parties may
\* write their ratchet state out as JSON and go on with the state read back
\* (integration test "session serialization mid-conversation").
\* ------------------------------------------------------------------------
Restored(state) == deserializeState(JSONparse(JSONstringify(serializeState(state))))

Resume ==
  /\ x3.done
  /\ rstate' = [p \in Party |-> <<Restored(rstate[p][1])>>]
  /\ last' = [NoLast EXCEPT !.op = "resume", !.pre = rstate]
  /\ UNCHANGED <<rng, x3, flight, delivered, inOrder, storeVars, envVars, heap>>

ResumeNext ==
  \/ setupAliceBobSessions(TRUE)
  \/ \E p \in Party : RSend(p, IF p = "A" THEN "msg1" ELSE "reply")
  \/ \E m \in flight, t \in {"none", "ciphertext"} : RDeliver(m, t)
  \/ Resume

SpecResume == Init /\ [][ResumeNext]_vars

\* ------------------------------------------------------------------------
\* Conversation on objects: each party holds a reference to its current
\* ratchet state, passes it to ratchetEncrypt / ratchetDecrypt and goes on
\* with the state returned, or with the one it passed when the call throws.
\* rstate is the value of the state each party holds.
\* ------------------------------------------------------------------------
\* The objects reachable from the references held, in allocation order;
\* the others are garbage.
Collect(objs, at) ==
  LET roots == {at[p] : p \in DOMAIN at}
      live == roots \cup {objs[r].MKSKIPPED : r \in roots}
      Rank(a) == Cardinality({b \in live : b <= a})
      Addr(i) == CHOOSE a \in live : Rank(a) = i
  IN [objs |-> [i \in 1..Cardinality(live) |->
                  IF Addr(i) \in roots
                    THEN [objs[Addr(i)] EXCEPT !.MKSKIPPED = Rank(@)]
                    ELSE objs[Addr(i)]],
      at |-> [p \in DOMAIN at |-> Rank(at[p])]]

\* p's call returned r: p replaces its reference when the call succeeded.
\* seen is the value, after the call, of the state each party held before.
CallDone(p, r) ==
  LET c == Collect(r.objs, IF r.ok THEN [heap.at EXCEPT ![p] = r.state] ELSE heap.at)
  IN [objs |-> c.objs, at |-> c.at,
      seen |-> [q \in Party |-> <<Deref(r.objs, heap.at[q])>>]]

VSetup ==
  /\ ~x3.done
  /\ LET spk == generateX25519KeyPair(rng + 1)
         opk == generateX25519KeyPair(rng + 2)
         bundle == [identityKey |-> edGetPublicKey(EdSeed("B")),
                    signedPrekey |-> [id |-> 1, publicKey |-> spk.publicKey,
                                      signature |-> edSign(spk.publicKey, EdSeed("B"))],
                    oneTimePrekey |-> <<[id |-> 100, publicKey |-> opk.publicKey]>>]
         x3dhResult == x3dhInitiate(EdSeed("A"), bundle, rng + 3)
         bobSecret == x3dhRespond(EdSeed("B"), spk.privateKey, opk.privateKey,
                                  edGetPublicKey(EdSeed("A")), x3dhResult.ephemeralPublic)
         alice == initializeRef(<<>>, initializeInitiator(x3dhResult.sharedSecret,
                                                          bundle.signedPrekey.publicKey, rng + 4))
         bob == initializeRef(alice.objs, initializeResponder(bobSecret, spk))
         at == [p \in Party |-> IF p = "A" THEN alice.state ELSE bob.state]
     IN /\ x3dhResult.ok
        /\ x3' = [done |-> TRUE, hasOpk |-> TRUE,
                  initiator |-> x3dhResult.sharedSecret, responder |-> bobSecret]
        /\ heap' = [NoHeap EXCEPT !.objs = bob.objs, !.at = at]
        /\ rstate' = [p \in Party |-> <<Deref(bob.objs, at[p])>>]
  /\ rng' = rng + 4
  /\ UNCHANGED <<flight, delivered, inOrder, last, storeVars, envVars>>

VSend(p, pt) ==
  /\ x3.done
  /\ NextSeq <= MaxSends
  /\ LET r == ratchetEncryptRef(heap.objs, heap.at[p], pt, rng + 1)
     IN /\ last' = [NoLast EXCEPT !.op = "encrypt", !.party = p, !.ok = r.ok, !.err = r.err,
                                  !.sent = pt, !.pre = rstate[p], !.header = r.header,
                                  !.seq = IF r.ok THEN NextSeq ELSE 0]
        /\ heap' = CallDone(p, r)
        /\ IF r.ok
             THEN /\ flight' = flight \cup {[seq |-> NextSeq, from |-> p, to |-> Peer(p),
                                             header |-> r.header, nonce |-> r.nonce,
                                             ciphertext |-> r.ciphertext, pt |-> pt]}
                  /\ inOrder' = (inOrder /\ ~\E m \in flight : m.to = p)
                  /\ rng' = rng + 1
             ELSE UNCHANGED <<flight, inOrder, rng>>
  /\ rstate' = [q \in Party |-> <<Deref(heap'.objs, heap'.at[q])>>]
  /\ UNCHANGED <<x3, delivered, storeVars, envVars>>

VDeliver(m, t) ==
  /\ m \in flight
  /\ LET w == Tampered(m, t)
         to == m.to
         r == ratchetDecryptRef(heap.objs, heap.at[to], w.header, w.nonce, w.ciphertext, rng + 1)
     IN /\ last' = [op |-> "decrypt", party |-> to, ok |-> r.ok, err |-> r.err,
                    plaintext |-> r.plaintext, sent |-> m.pt, tamper |-> t, seq |-> m.seq,
                    pre |-> rstate[to], header |-> w.header]
        /\ heap' = CallDone(to, r)
        /\ rng' = IF r.ok THEN rng + 1 ELSE rng
        /\ IF t = "none" /\ r.ok
             THEN /\ flight' = flight \ {m}
                  /\ delivered' = delivered \cup {m}
                  /\ inOrder' = (inOrder /\ \A m2 \in flight : m2.seq >= m.seq)
             ELSE UNCHANGED <<flight, delivered, inOrder>>
  /\ rstate' = [q \in Party |-> <<Deref(heap'.objs, heap'.at[q])>>]
  /\ UNCHANGED <<x3, storeVars, envVars>>

ValueNext ==
  \/ VSetup
  \/ \E p \in Party : VSend(p, IF p = "A" THEN "msg1" ELSE "reply")
  \/ \E m \in flight, t \in Tampers : VDeliver(m, t)

SpecValue == Init /\ [][ValueNext]_vars

\* ------------------------------------------------------------------------
\* Late and repeated deliveries: a conversation of up to MaxLate messages in
\* which the network hands each message to its receiver at any time, in any
\* order, and may hand a message that was already decrypted to its receiver
\* again, at once or after any number of later messages.
\* ------------------------------------------------------------------------
MaxLate == 4

LateSend(p, pt) ==
  /\ x3.done
  /\ NextSeq <= MaxLate
  /\ LET r == ratchetEncrypt(rstate[p][1], pt, rng + 1)
     IN /\ last' = [NoLast EXCEPT !.op = "encrypt", !.party = p, !.ok = r.ok, !.err = r.err,
                                  !.sent = pt, !.pre = rstate[p], !.header = r.header,
                                  !.seq = IF r.ok THEN NextSeq ELSE 0]
        /\ IF r.ok
             THEN /\ rstate' = [rstate EXCEPT ![p] = <<r.state>>]
                  /\ flight' = flight \cup {[seq |-> NextSeq, from |-> p, to |-> Peer(p),
                                             header |-> r.header, nonce |-> r.nonce,
                                             ciphertext |-> r.ciphertext, pt |-> pt]}
                  /\ inOrder' = (inOrder /\ ~\E m \in flight : m.to = p)
                  /\ rng' = rng + 1
             ELSE UNCHANGED <<rstate, flight, inOrder, rng>>
  /\ UNCHANGED <<x3, delivered, storeVars, envVars, heap>>

\* ratchetDecrypt on a message its receiver has decrypted before
Replay(m) ==
  /\ m \in delivered
  /\ LET to == m.to
         r == ratchetDecrypt(rstate[to][1], m.header, m.nonce, m.ciphertext, rng + 1)
     IN /\ last' = [op |-> "decrypt", party |-> to, ok |-> r.ok, err |-> r.err,
                    plaintext |-> r.plaintext, sent |-> m.pt, tamper |-> "replay", seq |-> m.seq,
                    pre |-> rstate[to], header |-> m.header]
        /\ IF r.ok
             THEN /\ rstate' = [rstate EXCEPT ![to] = <<r.state>>]
                  /\ rng' = rng + 1
             ELSE UNCHANGED <<rstate, rng>>
  /\ UNCHANGED <<x3, flight, delivered, inOrder, storeVars, envVars, heap>>

LateNext ==
  \/ setupAliceBobSessions(TRUE)
  \/ \E p \in Party : LateSend(p, IF p = "A" THEN "msg1" ELSE "reply")
  \/ \E m \in flight : RDeliver(m, "none")
  \/ \E m \in delivered : Replay(m)

SpecLate == Init /\ [][LateNext]_vars

\* ------------------------------------------------------------------------
\* Long one-way burst: A encrypts up to MaxBurst messages in a row on its
\* first sending chain; the network loses all of them except those whose
\* counter sits at the edge of a MAX_SKIP window, and hands the survivors to
\* B in any order. B may also be handed a header naming another ratchet key
\* and a previous-chain length at the edge of the window.
\* ------------------------------------------------------------------------
SkipRounds == 2

MaxBurst == SkipRounds * (MAX_SKIP + 1) + 1

Kept(n) == n >= MAX_SKIP /\ n % (MAX_SKIP + 1) \in {MAX_SKIP, 0}

BurstSend(pt) ==
  /\ x3.done
  /\ rstate["A"][1].Ns < MaxBurst
  /\ LET r == ratchetEncrypt(rstate["A"][1], pt, rng + 1)
     IN /\ r.ok
        /\ last' = [NoLast EXCEPT !.op = "encrypt", !.party = "A", !.sent = pt,
                                  !.header = r.header, !.seq = r.header.n + 1]
        /\ rstate' = [rstate EXCEPT !["A"] = <<r.state>>]
        /\ flight' = IF Kept(r.header.n)
                       THEN flight \cup {[seq |-> r.header.n + 1, from |-> "A", to |-> "B",
                                          header |-> r.header, nonce |-> r.nonce,
                                          ciphertext |-> r.ciphertext, pt |-> pt]}
                       ELSE flight
        /\ rng' = rng + 1
  /\ UNCHANGED <<x3, delivered, inOrder, storeVars, envVars, heap>>

PnGaps == {MAX_SKIP, MAX_SKIP + 1}

SkipForge(m, gap) ==
  /\ m \in flight
  /\ LET to == m.to
         header == [m.header EXCEPT !.dh = OtherDh(m), !.pn = rstate[to][1].Nr + gap]
         r == ratchetDecrypt(rstate[to][1], header, m.nonce, m.ciphertext, rng + 1)
     IN /\ last' = [op |-> "decrypt", party |-> to, ok |-> r.ok, err |-> r.err,
                    plaintext |-> r.plaintext, sent |-> m.pt, tamper |-> "dh_pn", seq |-> m.seq,
                    pre |-> rstate[to], header |-> header]
        /\ IF r.ok
             THEN /\ rstate' = [rstate EXCEPT ![to] = <<r.state>>]
                  /\ rng' = rng + 1
             ELSE UNCHANGED <<rstate, rng>>
  /\ UNCHANGED <<x3, flight, delivered, inOrder, storeVars, envVars, heap>>

\* A's encrypts and B's decrypts touch disjoint state, so every state B can
\* reach is reached by the schedules that let the burst finish first.
BurstDone == x3.done /\ rstate["A"][1].Ns = MaxBurst

SkipNext ==
  \/ setupAliceBobSessions(TRUE)
  \/ BurstSend("msg1")
  \/ BurstDone /\ \E m \in flight : RDeliver(m, "none")
  \/ BurstDone /\ \E m \in flight, gap \in PnGaps : SkipForge(m, gap)

SpecSkip == Init /\ [][SkipNext]_vars

\* ------------------------------------------------------------------------
\* Prekey store operations applied to one store held in memory, in any
\* order: generation, OPK replenishment, OPK consumption, signed-prekey
\* rotation, with the clock advancing in between.
\* ------------------------------------------------------------------------
MaxStoreOps == 2

MaxClock == 2

\* Number of clock advances made since the start
Ticks == ((now - 1) % SIGNED_PREKEY_ROTATION_MS) + ((now - 1) \div SIGNED_PREKEY_ROTATION_MS)

\* Date.now() moves on by a millisecond or by the rotation period
Tick(dt) ==
  /\ Ticks < MaxClock
  /\ now' = now + dt
  /\ UNCHANGED <<rng, ratVars, pstore, consumed, plast, envVars>>

PGenerate ==
  /\ pstore = Null
  /\ pstore' = <<generatePrekeyBundle(EdSeed("B"), now, rng)>>
  /\ rng' = rng + OPK_BATCH_SIZE + 1
  /\ plast' = [NoPLast EXCEPT !.op = "generate"]
  /\ UNCHANGED <<ratVars, now, consumed, envVars>>

PAdd(count) ==
  /\ pstore # Null
  /\ Len(pstore[1].oneTimePrekeys) + Cardinality(consumed) + count <= OPK_BATCH_SIZE + MaxStoreOps
  /\ LET r == generateAdditionalOPKs(pstore[1], count, rng)
     IN /\ pstore' = <<r.store>>
        /\ plast' = [op |-> "add", id |-> 0, count |-> count, result |-> r.newPublicKeys,
                     before |-> pstore]
  /\ rng' = rng + count
  /\ UNCHANGED <<ratVars, now, consumed, envVars>>

\* Ids handed to consumeLocalOPK: the oldest and the newest stored OPK, the
\* next id to be allocated, and every id consumed before.
ConsumeIds ==
  IF pstore = Null THEN {}
  ELSE LET keys == pstore[1].oneTimePrekeys
       IN {keys[i].id : i \in {j \in {1, 2, Len(keys)} : j <= Len(keys)}}
            \cup {pstore[1].nextOPKId} \cup consumed

PConsume(opkId) ==
  /\ pstore # Null
  /\ LET r == consumeLocalOPK(pstore[1], opkId)
     IN /\ plast' = [op |-> "consume", id |-> opkId, count |-> 0, result |-> r, before |-> pstore]
        /\ IF r # Null
             THEN /\ Cardinality(consumed) < MaxStoreOps
                  /\ pstore' = <<r[1].updatedStore>>
                  /\ consumed' = consumed \cup {opkId}
             ELSE UNCHANGED <<pstore, consumed>>
  /\ UNCHANGED <<rng, ratVars, now, envVars>>

PRotate ==
  /\ pstore # Null
  /\ now - pstore[1].signedPrekey.createdAt > SIGNED_PREKEY_ROTATION_MS
  /\ pstore' = <<rotateSignedPrekey(pstore[1], now, rng)>>
  /\ rng' = rng + 1
  /\ plast' = [NoPLast EXCEPT !.op = "rotate", !.before = pstore]
  /\ UNCHANGED <<ratVars, now, consumed, envVars>>

StoreNext ==
  \/ \E dt \in {1, SIGNED_PREKEY_ROTATION_MS} : Tick(dt)
  \/ PGenerate
  \/ \E count \in 1..2 : PAdd(count)
  \/ \E opkId \in ConsumeIds : PConsume(opkId)
  \/ PRotate

SpecStore == Init /\ [][StoreNext]_vars

\* ------------------------------------------------------------------------
\* Session persistence on one device: saveSession, loadSession and
\* deleteSession called in any order with any two of three public-key
\* strings, in either argument order, the two being equal included.
\* ------------------------------------------------------------------------
Device == "A"

PubHexes == {bytesToHex(edGetPublicKey(<<seed>>)) : seed \in {"seedA", "seedB", "seedC"}}

\* Two ratchet states to tell the stored records apart
SessionStates ==
  {initializeInitiator(x3dhKDF(<<i>>), getPublicKey(<<"x", i>>), i + 2) : i \in 1..2}

SSave(a, b, state) ==
  /\ storage' = [storage EXCEPT ![Device] = saveSession(@, a, b, state)]
  /\ plast' = [NoPLast EXCEPT !.op = "save", !.id = <<a, b>>, !.result = <<state>>]
  /\ UNCHANGED <<rng, ratVars, now, pstore, consumed, server, calls, net>>

SLoad(a, b) ==
  /\ plast' = [NoPLast EXCEPT !.op = "load", !.id = <<a, b>>,
                              !.result = loadSession(storage[Device], a, b)]
  /\ UNCHANGED <<rng, ratVars, now, pstore, consumed, envVars>>

SDelete(a, b) ==
  /\ storage' = [storage EXCEPT ![Device] = deleteSession(@, a, b)]
  /\ plast' = [NoPLast EXCEPT !.op = "delete", !.id = <<a, b>>]
  /\ UNCHANGED <<rng, ratVars, now, pstore, consumed, server, calls, net>>

SessionsNext ==
  \/ \E a \in PubHexes, b \in PubHexes, state \in SessionStates : SSave(a, b, state)
  \/ \E a \in PubHexes, b \in PubHexes : SLoad(a, b)
  \/ \E a \in PubHexes, b \in PubHexes : SDelete(a, b)

SpecSessions == Init /\ [][SessionsNext]_vars

\* ------------------------------------------------------------------------
\* Two independent sessions (integration test "messages from different
\* sessions do not interfere"): Alice holds one ratchet state for her session
\* with Bob and one for her session with Carol.  Each of the four states
\* encrypts for its own peer; a message may reach its receiver, or be handed
\* to ratchetDecrypt on a state of the other session.
\* ------------------------------------------------------------------------
\* aliceBobState, bobState, aliceCarolState, carolState
Endpoint == {"A", "B", "AC", "C"}

PeerEnd(e) == CASE e = "A" -> "B" [] e = "B" -> "A" [] e = "AC" -> "C" [] e = "C" -> "AC"

simulateServerPrekeyFlow(bobEdPriv, nowMs, k) ==
  LET bobStore == generatePrekeyBundle(bobEdPriv, nowMs, k)
      bobEdPub == edGetPublicKey(bobEdPriv)
      spkSig == edSign(bobStore.signedPrekey.publicKey, bobEdPriv)
  IN [bobStore |-> bobStore,
      serverBundle |-> [identityKey |-> bobEdPub,
                        signedPrekey |-> [id |-> bobStore.signedPrekey.id,
                                          publicKey |-> bobStore.signedPrekey.publicKey,
                                          signature |-> spkSig],
                        oneTimePrekey |-> IF Len(bobStore.oneTimePrekeys) > 0
                                            THEN <<[id |-> bobStore.oneTimePrekeys[1].id,
                                                    publicKey |-> bobStore.oneTimePrekeys[1].publicKey]>>
                                            ELSE Null]]

\* RNG draws of one session setup: the prekey store, the ephemeral key of
\* x3dhInitiate and the first ratchet key pair of initializeInitiator
SetupDraws == (1 + OPK_BATCH_SIZE) + 2

\* The initiator's and the responder's ratchet state of one session, set up
\* after k RNG draws.
setupSession(aliceEdPriv, bobEdPriv, nowMs, k) ==
  LET flow == simulateServerPrekeyFlow(bobEdPriv, nowMs, k)
      abResult == x3dhInitiate(aliceEdPriv, flow.serverBundle, k + OPK_BATCH_SIZE + 2)
      bobConsumed == consumeLocalOPK(flow.bobStore, abResult.usedOPKId[1])
      bobSecret == x3dhRespond(bobEdPriv, flow.bobStore.signedPrekey.privateKey,
                               bobConsumed[1].privateKey, edGetPublicKey(aliceEdPriv),
                               abResult.ephemeralPublic)
  IN [sharedSecret |-> abResult.sharedSecret, bobSecret |-> bobSecret,
      initiator |-> initializeInitiator(abResult.sharedSecret,
                                        flow.serverBundle.signedPrekey.publicKey,
                                        k + OPK_BATCH_SIZE + 3),
      responder |-> initializeResponder(bobSecret, getSignedPrekeyPair(flow.bobStore))]

setupTwoSessions ==
  /\ ~x3.done
  /\ LET ab == setupSession(<<"seedA">>, <<"seedB">>, now, rng)
         ac == setupSession(<<"seedA">>, <<"seedC">>, now, rng + SetupDraws)
     IN /\ x3' = [done |-> TRUE, hasOpk |-> TRUE,
                  initiator |-> ab.sharedSecret, responder |-> ab.bobSecret]
        /\ rstate' = [e \in Endpoint |->
              CASE e = "A" -> <<ab.initiator>>
                [] e = "B" -> <<ab.responder>>
                [] e = "AC" -> <<ac.initiator>>
                [] e = "C" -> <<ac.responder>>]
  /\ rng' = rng + 2 * SetupDraws
  /\ UNCHANGED <<flight, delivered, inOrder, last, storeVars, envVars, heap>>

\* ratchetEncrypt on the state e for the peer of its session
ISend(e, pt) ==
  /\ x3.done
  /\ NextSeq <= MaxSends
  /\ LET r == ratchetEncrypt(rstate[e][1], pt, rng + 1)
     IN /\ last' = [NoLast EXCEPT !.op = "encrypt", !.party = e, !.ok = r.ok, !.err = r.err,
                                  !.sent = pt, !.pre = rstate[e], !.header = r.header,
                                  !.seq = IF r.ok THEN NextSeq ELSE 0]
        /\ IF r.ok
             THEN /\ rstate' = [rstate EXCEPT ![e] = <<r.state>>]
                  /\ flight' = flight \cup {[seq |-> NextSeq, from |-> e, to |-> PeerEnd(e),
                                             header |-> r.header, nonce |-> r.nonce,
                                             ciphertext |-> r.ciphertext, pt |-> pt]}
                  /\ inOrder' = (inOrder /\ ~\E m \in flight : m.to = e)
                  /\ rng' = rng + 1
             ELSE UNCHANGED <<rstate, flight, inOrder, rng>>
  /\ UNCHANGED <<x3, delivered, storeVars, envVars, heap>>

\* A message of one session handed to ratchetDecrypt on a state e of the
\* other session; the message stays on its way to its own receiver.
Misdeliver(m, e) ==
  /\ m \in flight \cup delivered
  /\ e \notin {m.from, m.to}
  /\ LET r == ratchetDecrypt(rstate[e][1], m.header, m.nonce, m.ciphertext, rng + 1)
     IN /\ last' = [op |-> "decrypt", party |-> e, ok |-> r.ok, err |-> r.err,
                    plaintext |-> r.plaintext, sent |-> m.pt, tamper |-> "session", seq |-> m.seq,
                    pre |-> rstate[e], header |-> m.header]
        /\ IF r.ok
             THEN /\ rstate' = [rstate EXCEPT ![e] = <<r.state>>]
                  /\ rng' = rng + 1
             ELSE UNCHANGED <<rstate, rng>>
  /\ UNCHANGED <<x3, flight, delivered, inOrder, storeVars, envVars, heap>>

IsolationNext ==
  \/ setupTwoSessions
  \/ \E e \in Endpoint : ISend(e, IF e \in {"A", "B"} THEN "hi bob" ELSE "hi carol")
  \/ \E m \in flight : RDeliver(m, "none")
  \/ \E m \in flight \cup delivered, e \in Endpoint : Misdeliver(m, e)

SpecIsolation == Init /\ [][IsolationNext]_vars

\* ------------------------------------------------------------------------
\* The envelope router on two devices.  Each party may run
\* ensurePrekeysUploaded, start encryptDmMessage / encryptDmMessageV2 towards
\* its peer, and be handed any payload sent so far for decryptDmMessage.  A
\* call advances from one suspension point to the next; calls interleave.
\* ------------------------------------------------------------------------
MaxCalls == 2

ChannelId == "ch"

\* RNG draw number i of call c
CallRng(c, i) == 0 - (4 * c + i)

\* What each party writes
PlaintextOf(p) == IF p = "A" THEN "msg1" ELSE "reply"

MyHex(p) == getMyPublicKeyHex(EdSeed(p))

PeerHex(p) == getMyPublicKeyHex(EdSeed(Peer(p)))

\* Number of one-time prekeys in a device's stored prekey store
StoredOpks(st) ==
  IF loadPrekeyStore(st) = Null THEN 0 ELSE Len(loadPrekeyStore(st)[1].oneTimePrekeys)

\* The device holds the prekey store a fetched bundle was published from: its
\* signed prekey is the bundle's and the bundle's one-time prekey is in it.
HoldsStoreOf(st, bundle) ==
  /\ bundle # Null
  /\ loadPrekeyStore(st) # Null
  /\ LET held == loadPrekeyStore(st)[1]
     IN /\ held.signedPrekey.publicKey = bundle[1].signedPrekey.publicKey
        /\ bundle[1].oneTimePrekey # Null => bundle[1].oneTimePrekey[1].id \in OpkIds(held)

\* A call frame: the arguments, the position, the local variables, the
\* outcome (post: the ratchet state the call saved), how the network treated
\* it (fetch, tamper), and what the device held when the call was made.
NewCall(kind, me, plaintext, msg) ==
  [kind |-> kind, me |-> me, pc |-> "start", plaintext |-> plaintext, msg |-> msg,
   session |-> Null, x3dh |-> Null, header |-> Null, opkPrivate |-> Null, updatedStore |-> Null,
   attempts |-> 0, retries |-> 0, deleted |-> FALSE, ok |-> FALSE, err |-> "", firstErr |-> "",
   returned |-> Null, sent |-> Null, post |-> Null, fetch |-> "", tamper |-> "none",
   overlapped |-> {c \in 1..Len(calls) : calls[c].pc # "done" /\ calls[c].me = me},
   hadSession |-> loadSession(storage[me], MyHex(me), PeerHex(me)) # Null,
   preOpks |-> StoredOpks(storage[me]),
   heldStore |-> msg # Null /\ HoldsStoreOf(storage[me], msg[1].bundle)]

At(c, kinds, pc) == c \in 1..Len(calls) /\ calls[c].kind \in kinds /\ calls[c].pc = pc

Throw(f, err) == [f EXCEPT !.pc = "done", !.ok = FALSE, !.err = err]

\* The call f, number c, returns payload: it is sent
Emit(c, f, payload, bundle) ==
  /\ calls' = [calls EXCEPT ![c] = [f EXCEPT !.pc = "done", !.ok = TRUE, !.sent = <<payload>>]]
  /\ net' = net \cup {[call |-> c, from |-> f.me, pt |-> f.plaintext, payload |-> payload,
                       bundle |-> bundle]}

ensurePrekeysUploaded(p) ==
  LET privateKey == EdSeed(p)
      loaded == loadPrekeyStore(storage[p])
      spkUpload(store) ==
        <<[id |-> store.signedPrekey.id, public_key |-> toBase64(store.signedPrekey.publicKey),
           signature |-> toBase64(edSign(store.signedPrekey.publicKey, privateKey))]>>
      opkUpload(keys) == [i \in 1..Len(keys) |->
                            [id |-> keys[i].id, public_key |-> toBase64(keys[i].publicKey)]]
  IN /\ IF loaded = Null
          THEN LET store == generatePrekeyBundle(privateKey, now, rng)
               IN /\ storage' = [storage EXCEPT ![p] = savePrekeyStore(@, store)]
                  /\ server' = [server EXCEPT ![p] =
                                  uploadKeys(@, spkUpload(store), opkUpload(store.oneTimePrekeys))]
                  /\ rng' = rng + OPK_BATCH_SIZE + 1
          ELSE LET counts == getKeyCount(server[p])
                   needsRotation == now - loaded[1].signedPrekey.createdAt > SIGNED_PREKEY_ROTATION_MS
                   rotated == IF needsRotation THEN rotateSignedPrekey(loaded[1], now, rng)
                              ELSE loaded[1]
                   k == IF needsRotation THEN rng + 1 ELSE rng
                   needed == OPK_BATCH_SIZE - counts.one_time_prekeys_remaining
                   replenish == counts.one_time_prekeys_remaining < OPK_LOW_THRESHOLD /\ needed > 0
                   more == generateAdditionalOPKs(rotated, needed, k)
               IN /\ storage' = [storage EXCEPT ![p] =
                                   IF replenish THEN savePrekeyStore(@, more.store)
                                   ELSE IF needsRotation THEN savePrekeyStore(@, rotated)
                                   ELSE @]
                  /\ server' = [server EXCEPT ![p] =
                                  uploadKeys(@,
                                    IF ~counts.signed_prekey_uploaded \/ needsRotation
                                      THEN spkUpload(rotated) ELSE Null,
                                    IF replenish THEN opkUpload(more.newPublicKeys) ELSE <<>>)]
                  /\ rng' = IF replenish THEN k + needed ELSE k
     /\ UNCHANGED <<ratVars, storeVars, calls, net>>

\* encryptDmMessage (kind "enc") or encryptDmMessageV2 (kind "encV2") runs up
\* to the end of await loadSession; without a session encryptDmMessage
\* returns encryptV1
EncStartWithin(limit, p, kind, pt) ==
  /\ Len(calls) < limit
  /\ LET c == Len(calls) + 1
         f == NewCall(kind, p, pt, Null)
         session == loadSession(storage[p], MyHex(p), PeerHex(p))
     IN IF session # Null
          THEN /\ calls' = Append(calls, [f EXCEPT !.pc = "ratchetEncrypt", !.session = session])
               /\ UNCHANGED net
          ELSE IF kind = "encV2"
            THEN /\ calls' = Append(calls, [f EXCEPT !.pc = "fetchPeerBundle"])
                 /\ UNCHANGED net
            ELSE LET payload == encryptV1(ChannelId, pt, EdSeed(p), PeerHex(p), CallRng(c, 0))
                 IN /\ calls' = Append(calls, [f EXCEPT !.pc = "done", !.ok = TRUE,
                                                        !.sent = <<payload>>])
                    /\ net' = net \cup {[call |-> c, from |-> p, pt |-> pt, payload |-> payload,
                                         bundle |-> Null]}
  /\ UNCHANGED <<rng, ratVars, storeVars, storage, server>>

EncStart(p, kind, pt) == EncStartWithin(MaxCalls, p, kind, pt)

\* What becomes of GET /users/{id}/keys: the server's answer arrives, the
\* request fails or times out, or the answer that arrives carries a signed
\* prekey that is not the one the peer signed, or a signature that is not
\* the peer's.
FetchOutcomes == {"answer", "failure", "forged_spk", "forged_sig"}

\* A key pair and an identity that belong to neither party
Mallory == generateX25519KeyPair(0 - 1)

MallorySeed == <<"seedM">>

BundleAnswer(data, outcome) ==
  IF outcome = "failure" \/ data = Null THEN Null
  ELSE IF outcome = "forged_spk"
    THEN <<[data[1] EXCEPT !.signed_prekey.public_key = toBase64(Mallory.publicKey)]>>
  ELSE IF outcome = "forged_sig"
    THEN <<[data[1] EXCEPT !.signed_prekey.signature =
              toBase64(edSign(fromBase64(data[1].signed_prekey.public_key), MallorySeed))]>>
  ELSE data

\* await fetchPeerBundle; no bundle: encryptV1; else x3dhInitiate and
\* initializeInitiator
EncFetchBundle(c, outcome) ==
  /\ At(c, {"encV2"}, "fetchPeerBundle")
  /\ LET peer == Peer(calls[c].me)
         data == getBundle(server[peer], MyHex(peer))
         bundle == fetchPeerBundle(BundleAnswer(data, outcome))
         f == [calls[c] EXCEPT !.fetch = IF bundle = Null /\ outcome = "answer" THEN "no_bundle"
                                         ELSE outcome]
     IN /\ outcome \in {"forged_spk", "forged_sig"} => data # Null
        /\ server' = [server EXCEPT ![peer] = IF outcome = "failure" THEN @ ELSE afterGetBundle(@)]
        /\ IF bundle = Null
             THEN Emit(c, f, encryptV1(ChannelId, f.plaintext, EdSeed(f.me), PeerHex(f.me),
                                       CallRng(c, 0)), Null)
             ELSE LET x3dhResult == x3dhInitiate(EdSeed(f.me), bundle[1], CallRng(c, 0))
                  IN /\ UNCHANGED net
                     /\ calls' = [calls EXCEPT ![c] =
                          IF ~x3dhResult.ok
                            THEN Throw([f EXCEPT !.x3dh = <<[x3dhResult |-> x3dhResult,
                                                             bundle |-> bundle[1]]>>],
                                       "BadPrekeyBundle")
                          ELSE [f EXCEPT !.pc = "ratchetEncrypt",
                                  !.session = <<initializeInitiator(x3dhResult.sharedSecret,
                                                  bundle[1].signedPrekey.publicKey, CallRng(c, 1))>>,
                                  !.x3dh = <<[x3dhResult |-> x3dhResult, bundle |-> bundle[1]]>>]]
  /\ UNCHANGED <<rng, ratVars, storeVars, storage>>

\* EncSave adding the sender's identity key to every v2 header
EncSave_ikAlways(c) ==
  /\ At(c, {"enc", "encV2"}, "ratchetEncrypt")
  /\ LET f == calls[c]
         result == ratchetEncrypt(f.session[1], f.plaintext, CallRng(c, 2))
         header == IF f.x3dh = Null
                     THEN [result.header EXCEPT !.ik = toBase64(edGetPublicKey(EdSeed(f.me)))]
                   ELSE [result.header EXCEPT
                           !.ik = toBase64(edGetPublicKey(EdSeed(f.me))),
                           !.ek = toBase64(f.x3dh[1].x3dhResult.ephemeralPublic),
                           !.opk_id = f.x3dh[1].x3dhResult.usedOPKId]
     IN IF ~result.ok
          THEN /\ calls' = [calls EXCEPT ![c] = Throw(f, result.err)]
               /\ UNCHANGED <<storage, net>>
          ELSE /\ storage' = [storage EXCEPT ![f.me] =
                                saveSession(@, MyHex(f.me), PeerHex(f.me), result.state)]
               /\ Emit(c, [f EXCEPT !.post = <<result.state>>],
                       [version |-> DM_E2EE_V2, nonce |-> result.nonce,
                        ciphertext |-> result.ciphertext,
                        header |-> stringifyHeader(header)],
                       IF f.x3dh = Null THEN Null ELSE <<f.x3dh[1].bundle>>)
  /\ UNCHANGED <<rng, ratVars, storeVars, server>>

\* EncSave returning the v2 payload without saving the session
EncSave_noSave(c) ==
  /\ At(c, {"enc", "encV2"}, "ratchetEncrypt")
  /\ LET f == calls[c]
         result == ratchetEncrypt(f.session[1], f.plaintext, CallRng(c, 2))
         header == IF f.x3dh = Null THEN result.header
                   ELSE [result.header EXCEPT
                           !.ik = toBase64(edGetPublicKey(EdSeed(f.me))),
                           !.ek = toBase64(f.x3dh[1].x3dhResult.ephemeralPublic),
                           !.opk_id = f.x3dh[1].x3dhResult.usedOPKId]
     IN IF ~result.ok
          THEN /\ calls' = [calls EXCEPT ![c] = Throw(f, result.err)]
               /\ UNCHANGED <<storage, net>>
          ELSE /\ UNCHANGED storage
               /\ Emit(c, [f EXCEPT !.post = <<result.state>>],
                       [version |-> DM_E2EE_V2, nonce |-> result.nonce,
                        ciphertext |-> result.ciphertext,
                        header |-> stringifyHeader(header)],
                       IF f.x3dh = Null THEN Null ELSE <<f.x3dh[1].bundle>>)
  /\ UNCHANGED <<rng, ratVars, storeVars, server>>

\* await ratchetEncrypt; await saveSession; return the v2 payload, its header
\* extended by ik, ek, opk_id when the session was just initiated
EncSave(c) ==
  /\ At(c, {"enc", "encV2"}, "ratchetEncrypt")
  /\ LET f == calls[c]
         result == ratchetEncrypt(f.session[1], f.plaintext, CallRng(c, 2))
         header == IF f.x3dh = Null THEN result.header
                   ELSE [result.header EXCEPT
                           !.ik = toBase64(edGetPublicKey(EdSeed(f.me))),
                           !.ek = toBase64(f.x3dh[1].x3dhResult.ephemeralPublic),
                           !.opk_id = f.x3dh[1].x3dhResult.usedOPKId]
     IN IF ~result.ok
          THEN /\ calls' = [calls EXCEPT ![c] = Throw(f, result.err)]
               /\ UNCHANGED <<storage, net>>
          ELSE /\ storage' = [storage EXCEPT ![f.me] =
                                saveSession(@, MyHex(f.me), PeerHex(f.me), result.state)]
               /\ Emit(c, [f EXCEPT !.post = <<result.state>>],
                       [version |-> DM_E2EE_V2, nonce |-> result.nonce,
                        ciphertext |-> result.ciphertext,
                        header |-> stringifyHeader(header)],
                       IF f.x3dh = Null THEN Null ELSE <<f.x3dh[1].bundle>>)
  /\ UNCHANGED <<rng, ratVars, storeVars, server>>

\* What the network may do to a payload on its way to the sender's peer,
\* before it is handed to decryptDmMessage: nothing, give it a version that
\* is neither 1 nor 2, strip its header, both, or strip ik or ek from the
\* header.
OtherVersion == 3

EnvTampers == {"none", "version", "no_header", "version_no_header", "drop_ik", "drop_ek"}

WithoutField(json, name) == <<Head(json)>> \o SelectSeq(Tail(json), LAMBDA e : e[1] # name)

TamperedPayload(payload, t) ==
  IF t = "version" THEN [payload EXCEPT !.version = OtherVersion]
  ELSE IF t = "version_no_header" THEN [payload EXCEPT !.version = OtherVersion, !.header = Null]
  ELSE IF t = "no_header" THEN [payload EXCEPT !.header = Null]
  ELSE IF t \in {"drop_ik", "drop_ek"}
    THEN [payload EXCEPT !.header = WithoutField(@, IF t = "drop_ik" THEN "ik" ELSE "ek")]
  ELSE IF t = "add_x3dh"
    THEN [payload EXCEPT !.header = @ \o <<<<"ik", toBase64(edGetPublicKey(MallorySeed))>>,
                                            <<"ek", toBase64(Mallory.publicKey)>>>>]
  ELSE payload

\* decryptRoute falling back to decryptV1 where it has neither a session
\* nor ik and ek to build one
decryptRoute_fallback(payload, session) ==
  IF payload.version = DM_E2EE_V1 \/ payload.header = Null THEN "decryptV1"
  ELSE IF payload.version # DM_E2EE_V2 THEN "UnsupportedVersion"
  ELSE IF session = Null /\ parseHeader(payload.header).ik # Null
                         /\ parseHeader(payload.header).ek # Null THEN "bootstrap"
  ELSE IF session = Null THEN "decryptV1"
  ELSE "ratchetDecrypt"

\* The branch decryptDmMessage takes on a payload, given the session that
\* await loadSession returns (evaluated only on the v2 path)
decryptRoute(payload, session) ==
  IF payload.version = DM_E2EE_V1 \/ payload.header = Null THEN "decryptV1"
  ELSE IF payload.version # DM_E2EE_V2 THEN "UnsupportedVersion"
  ELSE IF session = Null /\ parseHeader(payload.header).ik # Null
                         /\ parseHeader(payload.header).ek # Null THEN "bootstrap"
  ELSE IF session = Null THEN "NoSession"
  ELSE "ratchetDecrypt"

\* decryptDmMessage is called on a payload: payloads of version 1 or without
\* header go to decryptV1, other versions than 2 are refused, a v2 header is
\* parsed and the call runs up to the end of await loadSession
DecStartWithin(limit, p, m, t) ==
  /\ Len(calls) < limit
  /\ m \in net
  /\ t # "none" => p = Peer(m.from)
  /\ t \in {"no_header", "version_no_header", "drop_ik", "drop_ek"} => m.payload.header # Null
  /\ t = "none" \/ TamperedPayload(m.payload, t) # m.payload
  /\ LET payload == TamperedPayload(m.payload, t)
         f == [NewCall("dec", p, "", <<[m EXCEPT !.payload = payload]>>) EXCEPT !.tamper = t]
         session == loadSession(storage[p], MyHex(p), PeerHex(p))
         route == decryptRoute(payload, session)
         header == parseHeader(payload.header)
     IN calls' = Append(calls,
          IF route = "decryptV1"
            THEN LET d == decryptV1(ChannelId, payload, EdSeed(p), PeerHex(p))
                 IN IF d.ok THEN [f EXCEPT !.pc = "done", !.ok = TRUE, !.returned = <<d.pt>>]
                    ELSE Throw(f, d.err)
          ELSE IF route = "UnsupportedVersion" THEN Throw(f, "UnsupportedVersion")
          ELSE IF route = "bootstrap"
            THEN [f EXCEPT !.pc = "loadPrekeyStore", !.header = <<header>>]
          ELSE IF route = "NoSession" THEN Throw([f EXCEPT !.header = <<header>>], "NoSession")
          ELSE [f EXCEPT !.pc = "ratchetDecrypt", !.header = <<header>>, !.session = session])
  /\ UNCHANGED <<rng, ratVars, storeVars, storage, server, net>>

DecStart(p, m, t) == DecStartWithin(MaxCalls, p, m, t)

\* await loadPrekeyStore, then the responder bootstrap
DecLoadPrekeys(c) ==
  /\ At(c, {"dec"}, "loadPrekeyStore")
  /\ LET f == calls[c]
         prekeyStore == loadPrekeyStore(storage[f.me])
     IN calls' = [calls EXCEPT ![c] =
          IF prekeyStore = Null THEN Throw(f, "NoPrekeyStore")
          ELSE LET b == responderBootstrap(EdSeed(f.me), prekeyStore[1], f.header[1])
               IN [f EXCEPT !.pc = IF b.opkPrivate # Null THEN "savePrekeyStore" ELSE "ratchetDecrypt",
                            !.session = <<b.session>>, !.opkPrivate = b.opkPrivate,
                            !.updatedStore = <<b.updatedStore>>]]
  /\ UNCHANGED <<rng, ratVars, storeVars, storage, server, net>>

\* await savePrekeyStore(updatedStore)
DecSavePrekeys(c) ==
  /\ At(c, {"dec"}, "savePrekeyStore")
  /\ LET f == calls[c]
     IN /\ storage' = [storage EXCEPT ![f.me] = savePrekeyStore(@, f.updatedStore[1])]
        /\ calls' = [calls EXCEPT ![c] = [f EXCEPT !.pc = "ratchetDecrypt", !.updatedStore = Null]]
  /\ UNCHANGED <<rng, ratVars, storeVars, server, net>>

\* await ratchetDecrypt; on success await saveSession and return; on failure
\* of a message carrying ik and ek go on to the reset
DecRatchet(c) ==
  /\ At(c, {"dec"}, "ratchetDecrypt")
  /\ LET f == calls[c]
         header == f.header[1]
         payload == f.msg[1].payload
         result == ratchetDecrypt(f.session[1], header, payload.nonce, payload.ciphertext,
                                  CallRng(c, 0))
         g == [f EXCEPT !.attempts = f.attempts + 1]
     IN IF result.ok
          THEN /\ storage' = [storage EXCEPT ![f.me] =
                                saveSession(@, MyHex(f.me), PeerHex(f.me), result.state)]
               /\ calls' = [calls EXCEPT ![c] =
                    [g EXCEPT !.pc = "done", !.ok = TRUE, !.returned = <<result.plaintext>>,
                              !.post = <<result.state>>]]
          ELSE /\ UNCHANGED storage
               /\ calls' = [calls EXCEPT ![c] =
                    IF header.ik # Null /\ header.ek # Null
                      THEN [g EXCEPT !.pc = "deleteSession", !.firstErr = result.err]
                      ELSE Throw([g EXCEPT !.firstErr = result.err], result.err)]
  /\ UNCHANGED <<rng, ratVars, storeVars, server, net>>

\* await deleteSession
DecDeleteSession(c) ==
  /\ At(c, {"dec"}, "deleteSession")
  /\ LET f == calls[c]
     IN /\ storage' = [storage EXCEPT ![f.me] = deleteSession(@, MyHex(f.me), PeerHex(f.me))]
        /\ calls' = [calls EXCEPT ![c] = [f EXCEPT !.pc = "retry", !.deleted = TRUE]]
  /\ UNCHANGED <<rng, ratVars, storeVars, server, net>>

\* DecRetry that resets and retries again when the retry fails
DecRetry_again(c) ==
  /\ At(c, {"dec"}, "retry")
  /\ LET f == calls[c]
         header == f.header[1]
         payload == f.msg[1].payload
         prekeyStore == loadPrekeyStore(storage[f.me])
         g == [f EXCEPT !.retries = f.retries + 1]
     IN IF prekeyStore = Null
          THEN /\ calls' = [calls EXCEPT ![c] = Throw(g, f.firstErr)]
               /\ UNCHANGED storage
          ELSE LET b == responderBootstrap(EdSeed(f.me), prekeyStore[1], header)
                   result == ratchetDecrypt(b.session, header, payload.nonce, payload.ciphertext,
                                            CallRng(c, 1))
                   h == [g EXCEPT !.attempts = f.attempts + 1]
               IN IF result.ok
                    THEN /\ storage' = [storage EXCEPT ![f.me] =
                              LET saved == saveSession(@, MyHex(f.me), PeerHex(f.me), result.state)
                              IN IF b.opkPrivate # Null THEN savePrekeyStore(saved, b.updatedStore)
                                 ELSE saved]
                         /\ calls' = [calls EXCEPT ![c] =
                              [h EXCEPT !.pc = "done", !.ok = TRUE, !.returned = <<result.plaintext>>,
                                        !.post = <<result.state>>]]
                    ELSE /\ UNCHANGED storage
                         /\ calls' = [calls EXCEPT ![c] = [h EXCEPT !.pc = "deleteSession"]]
  /\ UNCHANGED <<rng, ratVars, storeVars, server, net>>

\* The retry: await loadPrekeyStore (none: rethrow the first error), the
\* responder bootstrap again, await ratchetDecrypt on the fresh session; on
\* success await saveSession, await savePrekeyStore and return
DecRetry(c) ==
  /\ At(c, {"dec"}, "retry")
  /\ LET f == calls[c]
         header == f.header[1]
         payload == f.msg[1].payload
         prekeyStore == loadPrekeyStore(storage[f.me])
         g == [f EXCEPT !.retries = f.retries + 1]
     IN IF prekeyStore = Null
          THEN /\ calls' = [calls EXCEPT ![c] = Throw(g, f.firstErr)]
               /\ UNCHANGED storage
          ELSE LET b == responderBootstrap(EdSeed(f.me), prekeyStore[1], header)
                   result == ratchetDecrypt(b.session, header, payload.nonce, payload.ciphertext,
                                            CallRng(c, 1))
                   h == [g EXCEPT !.attempts = f.attempts + 1]
               IN IF result.ok
                    THEN /\ storage' = [storage EXCEPT ![f.me] =
                              LET saved == saveSession(@, MyHex(f.me), PeerHex(f.me), result.state)
                              IN IF b.opkPrivate # Null THEN savePrekeyStore(saved, b.updatedStore)
                                 ELSE saved]
                         /\ calls' = [calls EXCEPT ![c] =
                              [h EXCEPT !.pc = "done", !.ok = TRUE, !.returned = <<result.plaintext>>,
                                        !.post = <<result.state>>]]
                    ELSE /\ UNCHANGED storage
                         /\ calls' = [calls EXCEPT ![c] = Throw(h, result.err)]
  /\ UNCHANGED <<rng, ratVars, storeVars, server, net>>

Next ==
  \/ \E p \in Party : ensurePrekeysUploaded(p)
  \/ \E p \in Party, kind \in {"enc", "encV2"} : EncStart(p, kind, PlaintextOf(p))
  \/ \E c \in 1..Len(calls), outcome \in FetchOutcomes : EncFetchBundle(c, outcome)
  \/ \E c \in 1..Len(calls) : EncSave(c)
  \/ \E p \in Party, m \in net, t \in EnvTampers : DecStart(p, m, t)
  \/ \E c \in 1..Len(calls) : DecLoadPrekeys(c)
  \/ \E c \in 1..Len(calls) : DecSavePrekeys(c)
  \/ \E c \in 1..Len(calls) : DecRatchet(c)
  \/ \E c \in 1..Len(calls) : DecDeleteSession(c)
  \/ \E c \in 1..Len(calls) : DecRetry(c)

Spec == Init /\ [][Next]_vars

\* ------------------------------------------------------------------------
\* The legacy path on two devices that hold no session: encryptDmMessage
\* finds no session and returns encryptV1 for the channel it was given;
\* decryptDmMessage is handed a payload sent so far, as sent or with another
\* nonce, for the same channel or another one.  Every call runs to its end.
\* ------------------------------------------------------------------------
MaxV1Calls == 4

Channels == {"ch", "ch2"}

\* The nonce as sent, another nonce of the right length, or a string of
\* another length
NonceTampers == {"none", "other", "short", "long"}

TamperedNonce(payload, t) ==
  IF t = "none" THEN payload
  ELSE [payload EXCEPT !.nonce =
          toBase64(IF t = "other" THEN <<"rnd", 0>>
                   ELSE IF t = "short" THEN <<"bytes", AES_GCM_NONCE_BYTES - 1>>
                   ELSE <<"bytes", AES_GCM_NONCE_BYTES + 1>>)]

V1Call(kind, me, channelId) ==
  [kind |-> kind, me |-> me, channelId |-> channelId, msg |-> Null, tamper |-> "none",
   route |-> "", ok |-> TRUE, err |-> "", returned |-> Null]

V1Encrypt(p, channelId, pt) ==
  /\ Len(calls) < MaxV1Calls
  /\ loadSession(storage[p], MyHex(p), PeerHex(p)) = Null
  /\ LET payload == encryptV1(channelId, pt, EdSeed(p), PeerHex(p), rng + 1)
         m == [from |-> p, channelId |-> channelId, pt |-> pt, payload |-> payload]
     IN /\ net' = net \cup {m}
        /\ calls' = Append(calls, [V1Call("enc", p, channelId) EXCEPT !.msg = <<m>>])
  /\ rng' = rng + 1
  /\ UNCHANGED <<ratVars, storeVars, storage, server>>

V1Decrypt(p, m, channelId, t) ==
  /\ Len(calls) < MaxV1Calls
  /\ m \in net
  /\ LET payload == TamperedNonce(m.payload, t)
         session == loadSession(storage[p], MyHex(p), PeerHex(p))
         route == decryptRoute(payload, session)
         d == decryptV1(channelId, payload, EdSeed(p), PeerHex(p))
         f == [V1Call("dec", p, channelId) EXCEPT !.msg = <<m>>, !.tamper = t, !.route = route]
     IN /\ route = "decryptV1"
        /\ calls' = Append(calls,
             IF d.ok THEN [f EXCEPT !.returned = <<d.pt>>]
             ELSE [f EXCEPT !.ok = FALSE, !.err = d.err])
  /\ UNCHANGED <<rng, ratVars, storeVars, storage, server, net>>

V1Next ==
  \/ \E p \in Party, channelId \in Channels : V1Encrypt(p, channelId, PlaintextOf(p))
  \/ \E p \in Party, m \in net, channelId \in Channels, t \in NonceTampers :
       V1Decrypt(p, m, channelId, t)

SpecV1 == Init /\ [][V1Next]_vars

\* ------------------------------------------------------------------------
\* The prekey controller on one device, step by step.  A run of
\* ensurePrekeysUploaded advances from one await to the next; a request to
\* the key server may fail, which ends the run with the error; a run starts
\* when the one before has ended; the clock advances and peers fetch
\* bundles, which uses up the uploaded one-time prekeys.
\* ------------------------------------------------------------------------
MaxRuns == 2

Owner == "B"

\* Bundle fetches by peers between two steps: as many as leave exactly the
\* threshold, one more, or all of a batch
FetchCounts == {OPK_BATCH_SIZE - OPK_LOW_THRESHOLD, OPK_BATCH_SIZE - OPK_LOW_THRESHOLD + 1,
                OPK_BATCH_SIZE}

\* needsRotation that is true from an age of exactly the rotation period
needsRotation_atLeast(store, nowMs) ==
  nowMs - store.signedPrekey.createdAt >= SIGNED_PREKEY_ROTATION_MS

needsRotation(store, nowMs) ==
  nowMs - store.signedPrekey.createdAt > SIGNED_PREKEY_ROTATION_MS

\* Replenishment that also sets in at exactly the threshold
needsReplenish_atThreshold(counts) ==
  /\ counts.one_time_prekeys_remaining <= OPK_LOW_THRESHOLD
  /\ OPK_BATCH_SIZE - counts.one_time_prekeys_remaining > 0

needsReplenish(counts) ==
  /\ counts.one_time_prekeys_remaining < OPK_LOW_THRESHOLD
  /\ OPK_BATCH_SIZE - counts.one_time_prekeys_remaining > 0

\* The signed_prekey and one_time_prekeys members of an upload request
signedPrekeyUpload(store, privateKey) ==
  <<[id |-> store.signedPrekey.id, public_key |-> toBase64(store.signedPrekey.publicKey),
     signature |-> toBase64(edSign(store.signedPrekey.publicKey, privateKey))]>>

oneTimePrekeysUpload(keys) ==
  [i \in 1..Len(keys) |-> [id |-> keys[i].id, public_key |-> toBase64(keys[i].publicKey)]]

\* The frame of a run: position, the local variables store, counts and
\* newPublicKeys, the outcome, and for the record the store as loaded, the
\* time of the rotation check, the stores saved and the requests uploaded.
NewRun(me) ==
  [kind |-> "ctl", me |-> me, pc |-> "start", store |-> Null, counts |-> Null,
   newPublicKeys |-> <<>>, ok |-> FALSE, err |-> "",
   loaded |-> loadPrekeyStore(storage[me]), checkedAt |-> 0, saved |-> <<>>, uploads |-> <<>>]

\* The run f goes on after the signed-prekey part: it replenishes the
\* one-time prekeys when the server reported too few, and returns otherwise
RunReplenish(f, k) ==
  IF needsReplenish(f.counts[1])
    THEN LET r == generateAdditionalOPKs(f.store[1],
                    OPK_BATCH_SIZE - f.counts[1].one_time_prekeys_remaining, k)
         IN [f EXCEPT !.pc = "saveOpks", !.store = <<r.store>>, !.newPublicKeys = r.newPublicKeys]
    ELSE [f EXCEPT !.pc = "done", !.ok = TRUE]

\* await loadPrekeyStore; no store: generatePrekeyBundle
RunBegin(p) ==
  /\ LET f == NewRun(p)
     IN IF f.loaded = Null
          THEN /\ calls' = Append(calls, [f EXCEPT !.pc = "saveFresh",
                              !.store = <<generatePrekeyBundle(EdSeed(p), now, rng)>>])
               /\ rng' = rng + OPK_BATCH_SIZE + 1
          ELSE /\ calls' = Append(calls, [f EXCEPT !.pc = "getKeyCount", !.store = f.loaded])
               /\ UNCHANGED rng
  /\ UNCHANGED <<ratVars, storeVars, storage, server, net>>

\* A run starts when the one before has ended
RunStart(p) ==
  /\ Len(calls) < MaxRuns
  /\ \A c \in 1..Len(calls) : calls[c].pc = "done"
  /\ RunBegin(p)

\* await savePrekeyStore(store), at each of its three places
RunSave(c) ==
  /\ At(c, {"ctl"}, calls[c].pc) /\ calls[c].pc \in {"saveFresh", "saveRotated", "saveOpks"}
  /\ LET f == calls[c]
     IN /\ storage' = [storage EXCEPT ![f.me] = savePrekeyStore(@, f.store[1])]
        /\ calls' = [calls EXCEPT ![c] =
             [f EXCEPT !.saved = Append(@, f.store[1]),
                       !.pc = IF f.pc = "saveFresh" THEN "uploadFresh"
                              ELSE IF f.pc = "saveRotated" THEN "uploadSigned"
                              ELSE "uploadOpks"]]
  /\ UNCHANGED <<rng, ratVars, storeVars, server, net>>

\* await keysApi.uploadKeys of the first run: signed prekey and all one-time
\* prekeys in one request
RunUploadFresh(c, arrives) ==
  /\ At(c, {"ctl"}, "uploadFresh")
  /\ LET f == calls[c]
         request == [signed_prekey |-> signedPrekeyUpload(f.store[1], EdSeed(f.me)),
                     one_time_prekeys |-> oneTimePrekeysUpload(f.store[1].oneTimePrekeys)]
     IN IF arrives
          THEN /\ server' = [server EXCEPT ![f.me] =
                               uploadKeys(@, request.signed_prekey, request.one_time_prekeys)]
               /\ calls' = [calls EXCEPT ![c] =
                    [f EXCEPT !.pc = "done", !.ok = TRUE, !.uploads = Append(@, request)]]
          ELSE /\ calls' = [calls EXCEPT ![c] = Throw(f, "RequestFailed")]
               /\ UNCHANGED server
  /\ UNCHANGED <<rng, ratVars, storeVars, storage, net>>

\* await keysApi.getKeyCount; then the rotation check: a new signed prekey
\* when the stored one is too old; a signed prekey to upload when it is or
\* when the server has none; else on to the one-time prekeys
RunGetKeyCount(c, arrives) ==
  /\ At(c, {"ctl"}, "getKeyCount")
  /\ LET f == calls[c]
         g == [f EXCEPT !.counts = <<getKeyCount(server[f.me])>>, !.checkedAt = now]
     IN IF ~arrives
          THEN /\ calls' = [calls EXCEPT ![c] = Throw(f, "RequestFailed")]
               /\ UNCHANGED rng
          ELSE IF ~g.counts[1].signed_prekey_uploaded \/ needsRotation(f.store[1], now)
            THEN IF needsRotation(f.store[1], now)
                   THEN /\ calls' = [calls EXCEPT ![c] =
                             [g EXCEPT !.pc = "saveRotated",
                                       !.store = <<rotateSignedPrekey(f.store[1], now, rng)>>]]
                        /\ rng' = rng + 1
                   ELSE /\ calls' = [calls EXCEPT ![c] = [g EXCEPT !.pc = "uploadSigned"]]
                        /\ UNCHANGED rng
            ELSE /\ calls' = [calls EXCEPT ![c] = RunReplenish(g, rng)]
                 /\ rng' = rng + Len(calls'[c].newPublicKeys)
  /\ UNCHANGED <<ratVars, storeVars, storage, server, net>>

\* await keysApi.uploadKeys({signed_prekey}); then on to the one-time prekeys
RunUploadSigned(c, arrives) ==
  /\ At(c, {"ctl"}, "uploadSigned")
  /\ LET f == calls[c]
         request == [signed_prekey |-> signedPrekeyUpload(f.store[1], EdSeed(f.me)),
                     one_time_prekeys |-> <<>>]
     IN IF arrives
          THEN /\ server' = [server EXCEPT ![f.me] = uploadKeys(@, request.signed_prekey, <<>>)]
               /\ calls' = [calls EXCEPT ![c] =
                    RunReplenish([f EXCEPT !.uploads = Append(@, request)], rng)]
               /\ rng' = rng + Len(calls'[c].newPublicKeys)
          ELSE /\ calls' = [calls EXCEPT ![c] = Throw(f, "RequestFailed")]
               /\ UNCHANGED <<rng, server>>
  /\ UNCHANGED <<ratVars, storeVars, storage, net>>

\* await keysApi.uploadKeys({one_time_prekeys}) with the new public keys
RunUploadOpks(c, arrives) ==
  /\ At(c, {"ctl"}, "uploadOpks")
  /\ LET f == calls[c]
         request == [signed_prekey |-> Null,
                     one_time_prekeys |-> oneTimePrekeysUpload(f.newPublicKeys)]
     IN IF arrives
          THEN /\ server' = [server EXCEPT ![f.me] = uploadKeys(@, Null, request.one_time_prekeys)]
               /\ calls' = [calls EXCEPT ![c] =
                    [f EXCEPT !.pc = "done", !.ok = TRUE, !.uploads = Append(@, request)]]
          ELSE /\ calls' = [calls EXCEPT ![c] = Throw(f, "RequestFailed")]
               /\ UNCHANGED server
  /\ UNCHANGED <<rng, ratVars, storeVars, storage, net>>

\* Peers fetch count bundles of the owner: count one-time prekeys are gone
PeersFetch(p, count) ==
  /\ server[p].signed_prekey # Null
  /\ Len(server[p].one_time_prekeys) >= count
  /\ server' = [server EXCEPT ![p].one_time_prekeys = SubSeq(@, count + 1, Len(@))]
  /\ UNCHANGED <<rng, ratVars, storeVars, storage, calls, net>>

PrekeysNext ==
  \/ \E dt \in {1, SIGNED_PREKEY_ROTATION_MS} : Tick(dt)
  \/ RunStart(Owner)
  \/ \E c \in 1..Len(calls) : RunSave(c)
  \/ \E c \in 1..Len(calls), arrives \in BOOLEAN : RunUploadFresh(c, arrives)
  \/ \E c \in 1..Len(calls), arrives \in BOOLEAN : RunGetKeyCount(c, arrives)
  \/ \E c \in 1..Len(calls), arrives \in BOOLEAN : RunUploadSigned(c, arrives)
  \/ \E c \in 1..Len(calls), arrives \in BOOLEAN : RunUploadOpks(c, arrives)
  \/ \E count \in FetchCounts : PeersFetch(Owner, count)

SpecPrekeys == Init /\ [][PrekeysNext]_vars

\* ------------------------------------------------------------------------
\* Arrival at the responder.  The owner's device runs the prekey controller
\* (whole runs, and runs started by further READY events that advance from
\* one await to the next while other calls are suspended), the clock
\* advances, the peer encrypts with encryptDmMessageV2 / encryptDmMessage,
\* and the owner is handed any payload sent so far, as sent or with ik and
\* ek added to its header.  The pair may also hold sessions that were set up
\* on the ratchet functions and stored with saveSession.
\* ------------------------------------------------------------------------
MaxArrivalCalls == 3

Initiator == Peer(Owner)

\* The pair's sessions set up as the ratchet tests do: the initiator runs
\* X3DH on the owner's bundle and encrypts a first message, the owner runs
\* the responder side and decrypts it as ratchetEncrypt sealed it; both
\* store their state
setupStoredSessions ==
  /\ calls = <<>> /\ net = {}
  /\ loadPrekeyStore(storage[Owner]) # Null
  /\ getBundle(server[Owner], MyHex(Owner)) # Null
  /\ \A p \in Party : loadSession(storage[p], MyHex(p), PeerHex(p)) = Null
  /\ LET bundle == fetchPeerBundle(getBundle(server[Owner], MyHex(Owner)))[1]
         x3dhResult == x3dhInitiate(EdSeed(Initiator), bundle, rng + 1)
         alice == initializeInitiator(x3dhResult.sharedSecret, bundle.signedPrekey.publicKey,
                                      rng + 2)
         enc == ratchetEncrypt(alice, PlaintextOf(Initiator), rng + 3)
         x3dhHeader == [enc.header EXCEPT
                          !.ik = toBase64(edGetPublicKey(EdSeed(Initiator))),
                          !.ek = toBase64(x3dhResult.ephemeralPublic),
                          !.opk_id = x3dhResult.usedOPKId]
         b == responderBootstrap(EdSeed(Owner), loadPrekeyStore(storage[Owner])[1], x3dhHeader)
         dec == ratchetDecrypt(b.session, enc.header, enc.nonce, enc.ciphertext, rng + 4)
     IN /\ x3dhResult.ok /\ enc.ok /\ dec.ok
        /\ storage' = [p \in Party |->
             IF p = Initiator THEN saveSession(storage[p], MyHex(p), PeerHex(p), enc.state)
             ELSE LET saved == saveSession(storage[p], MyHex(p), PeerHex(p), dec.state)
                  IN IF b.opkPrivate # Null THEN savePrekeyStore(saved, b.updatedStore) ELSE saved]
        /\ server' = [server EXCEPT ![Owner] = afterGetBundle(@)]
  /\ rng' = rng + 4
  /\ UNCHANGED <<ratVars, storeVars, calls, net>>

\* A further READY event: ensurePrekeysUploaded starts whatever else is
\* suspended
ReadyEvent(p) ==
  /\ Len(calls) < MaxArrivalCalls
  /\ RunBegin(p)

\* No call of the device is suspended
Idle(p) == \A c \in 1..Len(calls) : calls[c].me = p => calls[c].pc = "done"

ArrivalNext ==
  \/ Tick(SIGNED_PREKEY_ROTATION_MS + 1)
  \/ Idle(Owner) /\ ensurePrekeysUploaded(Owner)
  \/ \E kind \in {"enc", "encV2"} :
       EncStartWithin(MaxArrivalCalls, Initiator, kind, PlaintextOf(Initiator))
  \/ \E c \in 1..Len(calls) : EncFetchBundle(c, "answer")
  \/ \E c \in 1..Len(calls) : EncSave(c)
  \/ \E m \in net : DecStartWithin(MaxArrivalCalls, Owner, m, "none")
  \/ \E c \in 1..Len(calls) : DecLoadPrekeys(c)
  \/ \E c \in 1..Len(calls) : DecSavePrekeys(c)
  \/ \E c \in 1..Len(calls) : DecRatchet(c)
  \/ \E c \in 1..Len(calls) : DecDeleteSession(c)
  \/ \E c \in 1..Len(calls) : DecRetry(c)
  \/ ReadyEvent(Owner)
  \/ \E c \in 1..Len(calls) : RunSave(c)
  \/ \E c \in 1..Len(calls), arrives \in BOOLEAN : RunUploadFresh(c, arrives)
  \/ \E c \in 1..Len(calls), arrives \in BOOLEAN : RunGetKeyCount(c, arrives)
  \/ \E c \in 1..Len(calls), arrives \in BOOLEAN : RunUploadSigned(c, arrives)

SpecArrival == Init /\ [][ArrivalNext]_vars

\* The same pair once its sessions are stored: the initiator encrypts, the
\* owner is handed the payloads as sent or with ik and ek added to the header
ArrivalTampers == {"none", "add_x3dh"}

EstablishedNext ==
  \/ ensurePrekeysUploaded(Owner)
  \/ setupStoredSessions
  \/ \E kind \in {"enc", "encV2"} :
       EncStartWithin(MaxArrivalCalls, Initiator, kind, PlaintextOf(Initiator))
  \/ \E c \in 1..Len(calls) : EncFetchBundle(c, "answer")
  \/ \E c \in 1..Len(calls) : EncSave(c)
  \/ \E m \in net, t \in ArrivalTampers :
       /\ t = "add_x3dh" => m.payload.header # Null /\ parseHeader(m.payload.header).ik = Null
       /\ DecStartWithin(MaxArrivalCalls, Owner, m, t)
  \/ \E c \in 1..Len(calls) : DecLoadPrekeys(c)
  \/ \E c \in 1..Len(calls) : DecSavePrekeys(c)
  \/ \E c \in 1..Len(calls) : DecRatchet(c)
  \/ \E c \in 1..Len(calls) : DecDeleteSession(c)
  \/ \E c \in 1..Len(calls) : DecRetry(c)

SpecEstablished == Init /\ [][EstablishedNext]_vars

\* ------------------------------------------------------------------------
\* Properties of the ratchet-level conversation
\* ------------------------------------------------------------------------

\* C2: for an honest initiator, responder and bundle (with or without a
\* one-time prekey) the secret x3dhInitiate returns equals the secret
\* x3dhRespond computes from the matching private keys.
C2_X3dhAgreement == x3.done => x3.initiator = x3.responder

C2_Witness == x3.done /\ x3.hasOpk /\ x3.initiator # Null

\* C4: in a conversation where the initiator sends first and every message
\* is delivered in sending order before its receiver's next send, every
\* ratchetDecrypt returns the plaintext passed to the matching ratchetEncrypt.
C4_InOrderConversation ==
  (last.op = "decrypt" /\ last.tamper = "none" /\ inOrder)
    => (last.ok /\ last.plaintext = last.sent)

C4_Witness ==
  /\ last.op = "decrypt" /\ last.tamper = "none" /\ inOrder
  /\ last.party = "B" /\ last.seq = MaxSends
  /\ \E m \in delivered : m.from = "B"
  /\ last.ok /\ last.plaintext = last.sent

\* All messages sent so far come from one sender on one sending chain.
OneChain ==
  \A m1, m2 \in flight \cup delivered : m1.from = m2.from /\ m1.header.dh = m2.header.dh

\* C5: messages encrypted consecutively on one sending chain and delivered
\* once each, in any order, all decrypt to their own plaintext.
C5_OutOfOrder ==
  (last.op = "decrypt" /\ last.tamper = "none" /\ OneChain)
    => (last.ok /\ last.plaintext = last.sent)

C5_Witness ==
  /\ last.op = "decrypt" /\ last.tamper = "none" /\ OneChain
  /\ last.seq = 2 /\ Cardinality(delivered) = MaxSends
  /\ \E m \in delivered : m.seq = 1 /\ m.pt # last.sent
  /\ last.pre[1].Nr = MaxSends
  /\ last.ok /\ last.plaintext = last.sent

\* C7 as stated: a changed ciphertext byte or header field makes
\* ratchetDecrypt fail with DecryptFailed.
C7_TamperDecryptFailed ==
  (last.op = "decrypt" /\ last.tamper # "none") => (~last.ok /\ last.err = "DecryptFailed")

\* C7 amended: a changed ciphertext byte or header field makes ratchetDecrypt
\* throw and return no plaintext and no state; the error is DecryptFailed,
\* or TooManySkipped when the changed counter lies more than MAX_SKIP ahead,
\* or "Receiving chain not initialized" when the changed dh equals the
\* receiver's DHr while it has no receiving chain.
C7_TamperRejected ==
  (last.op = "decrypt" /\ last.tamper # "none") =>
    LET st == rstate[last.party][1]
    IN /\ ~last.ok
       /\ last.plaintext = ""
       /\ rstate[last.party] = last.pre
       /\ \/ last.err = "DecryptFailed"
          \/ /\ last.err = "TooManySkipped"
             /\ (last.header.n > MAX_SKIP \/ last.header.pn - st.Nr > MAX_SKIP)
          \/ /\ last.err = "ReceivingChainNotInitialized"
             /\ st.CKr = Null
             /\ st.DHr = fromBase64(last.header.dh)

C7_Witness ==
  /\ last.op = "decrypt" /\ last.tamper = "pn" /\ ~last.ok /\ last.err = "DecryptFailed"
  /\ rstate[last.party][1].CKr # Null

\* ------------------------------------------------------------------------
\* Properties of the skipped-key cache
\* ------------------------------------------------------------------------

\* C8: in every reachable ratchet state MKSKIPPED holds at most MAX_SKIP
\* message keys, counting the keys of one decrypt call and the keys
\* accumulated over successive calls.
C8_SkippedAtMostMaxSkip ==
  \A p \in Party : rstate[p] # Null => MapSize(rstate[p][1].MKSKIPPED) <= MAX_SKIP

\* The gaps the last ratchetDecrypt call had to skip over, read off the state
\* before the call and the header it was given.
LastHit ==
  MapHas(last.pre[1].MKSKIPPED, <<bytesToHex(fromBase64(last.header.dh)), last.header.n>>)

LastStep ==
  last.pre[1].DHr = Null \/ last.pre[1].DHr # fromBase64(last.header.dh)

LastPrevGap ==
  IF LastStep /\ last.pre[1].CKr # Null /\ last.pre[1].DHr # Null
    THEN last.header.pn - last.pre[1].Nr ELSE 0

LastCurGap ==
  IF LastStep THEN last.header.n
  ELSE IF last.pre[1].CKr # Null THEN last.header.n - last.pre[1].Nr ELSE 0

\* C9: a ratchetDecrypt that has to skip raises TooManySkipped, returning no
\* state, exactly when the gap on the previous chain (header.pn - Nr at a DH
\* ratchet step) or on the current chain (header.n - Nr) exceeds MAX_SKIP; a
\* gap of exactly MAX_SKIP is not rejected.
C9_TooManySkipped ==
  (last.op = "decrypt" /\ ~LastHit) =>
    /\ (last.err = "TooManySkipped") <=> (LastPrevGap > MAX_SKIP \/ LastCurGap > MAX_SKIP)
    /\ (last.err = "TooManySkipped") => (~last.ok /\ rstate[last.party] = last.pre)
    /\ (LastCurGap = MAX_SKIP /\ LastPrevGap <= MAX_SKIP /\ last.tamper = "none")
         => (last.ok /\ rstate[last.party][1].Nr = last.header.n + 1)

\* A gap of MAX_SKIP + 1 is rejected by a receiver that earlier accepted a
\* gap of exactly MAX_SKIP (and so holds MAX_SKIP skipped keys).
C9_Witness ==
  /\ last.op = "decrypt" /\ ~LastHit /\ last.tamper = "none"
  /\ last.err = "TooManySkipped"
  /\ LastCurGap = MAX_SKIP + 1
  /\ MapSize(rstate[last.party][1].MKSKIPPED) = MAX_SKIP
  /\ rstate[last.party][1].Nr = MAX_SKIP + 1

\* ------------------------------------------------------------------------
\* Properties of the prekey store
\* ------------------------------------------------------------------------
\* C6: consumeLocalOPK returns, for an id in the store, that OPK's private
\* key and a store lacking exactly that entry (signed prekey, nextOPKId and
\* the other OPKs, in order, unchanged), and null for an id not in the store;
\* an id once consumed is never found again in the updated store, whatever
\* store operations follow.
C6_ConsumeOnce ==
  /\ \A opkId \in consumed : pstore # Null /\ opkId \notin OpkIds(pstore[1])
  /\ plast.op = "consume" =>
       LET before == plast.before[1]
           keys == before.oneTimePrekeys
       IN IF plast.id \in OpkIds(before)
            THEN /\ plast.result # Null
                 /\ \E i \in 1..Len(keys) :
                      /\ keys[i].id = plast.id
                      /\ plast.result[1].privateKey = keys[i].privateKey
                      /\ plast.result[1].updatedStore.oneTimePrekeys = SubSeq(keys, 1, i - 1) \o SubSeq(keys, i + 1, Len(keys))
                 /\ Len(plast.result[1].updatedStore.oneTimePrekeys) = Len(keys) - 1
                 /\ plast.result[1].updatedStore.signedPrekey = before.signedPrekey
                 /\ plast.result[1].updatedStore.nextOPKId = before.nextOPKId
            ELSE plast.result = Null

\* A consumed id is asked for again after the store was replenished and the
\* signed prekey rotated, and is not found.
C6_Witness ==
  /\ plast.op = "consume" /\ plast.id \in consumed /\ plast.result = Null
  /\ Cardinality(consumed) >= 2
  /\ pstore[1].nextOPKId > pstore[1].signedPrekey.id + OPK_BATCH_SIZE + 1
  /\ pstore[1].signedPrekey.createdAt > SIGNED_PREKEY_ROTATION_MS

\* ------------------------------------------------------------------------
\* Properties of the envelope router
\* ------------------------------------------------------------------------
DecCalls == {c \in 1..Len(calls) : calls[c].kind = "dec"}

\* The payload is the first one of a session: encryptDmMessageV2 made it
\* right after X3DH, with ik and ek in the header
FirstPayload(m) == m.payload.version = DM_E2EE_V2 /\ m.bundle # Null

\* The call is the only one its party has made
OnlyCallOf(c) == \A d \in 1..Len(calls) : d # c => calls[d].me # calls[c].me

\* C1: when the peer of the sender, holding no session for the pair and the
\* prekey store the bundle was published from, passes the first v2 payload of
\* a session to decryptDm, the call returns exactly the sender's plaintext, a
\* responder session is persisted for the pair, and, if the bundle had a
\* one-time prekey, the peer's stored OPK list is one entry shorter.
C1_FirstMessageDecrypts ==
  \A c \in DecCalls :
    LET f == calls[c]
    IN (/\ f.pc = "done"
        /\ f.tamper = "none"
        /\ FirstPayload(f.msg[1])
        /\ f.me = Peer(f.msg[1].from)
        /\ ~f.hadSession
        /\ f.heldStore
        /\ OnlyCallOf(c))
       => /\ f.ok
          /\ f.returned = <<f.msg[1].pt>>
          /\ loadSession(storage[f.me], MyHex(f.me), PeerHex(f.me)) # Null
          /\ f.msg[1].bundle[1].oneTimePrekey # Null
               => StoredOpks(storage[f.me]) = f.preOpks - 1

Overlapped(c, d) == c \in calls[d].overlapped \/ d \in calls[c].overlapped

\* C3: two v2 payloads that overlapping encryptDm calls of one party on the
\* pair produced carry different header counters n and were not encrypted
\* under the same ratchet message key.
C3_EncryptSerialized ==
  \A m1 \in net, m2 \in net :
    (/\ m1.call # m2.call
     /\ m1.from = m2.from
     /\ m1.payload.version = DM_E2EE_V2 /\ m2.payload.version = DM_E2EE_V2
     /\ Overlapped(m1.call, m2.call))
    => /\ parseHeader(m1.payload.header).n # parseHeader(m2.payload.header).n
       /\ fromBase64(m1.payload.ciphertext).key # fromBase64(m2.payload.ciphertext).key

X3dhHeader(f) == f.header # Null /\ f.header[1].ik # Null /\ f.header[1].ek # Null

\* C10: a decryptDm call makes at most two ratchet decrypt attempts; when
\* the first fails and the header carries ik and ek, the call deletes the
\* persisted session and retries the responder bootstrap exactly once, and
\* when the retry fails too the call ends with the error raised; without ik
\* and ek the first failure is raised at once.
C10_RetryOnce ==
  \A c \in DecCalls :
    LET f == calls[c]
    IN /\ f.attempts <= 2
       /\ f.retries <= 1
       /\ f.retries = 1 => f.deleted /\ f.firstErr # "" /\ X3dhHeader(f)
       /\ (f.pc = "done" /\ f.firstErr # "" /\ X3dhHeader(f))
            => /\ f.deleted
               /\ f.retries = 1
               /\ ~f.ok => f.err # ""
       /\ (f.firstErr # "" /\ ~X3dhHeader(f))
            => f.pc = "done" /\ ~f.ok /\ f.err = f.firstErr /\ ~f.deleted /\ f.attempts = 1

\* The first decrypt of a first payload failed, the session was deleted, the
\* bootstrap was retried, the second decrypt failed too and the error raised.
C10_Witness ==
  \E c \in DecCalls :
    /\ calls[c].pc = "done" /\ ~calls[c].ok /\ calls[c].err = "DecryptFailed"
    /\ calls[c].attempts = 2 /\ calls[c].retries = 1 /\ calls[c].deleted

EncCalls == {c \in 1..Len(calls) : calls[c].kind \in {"enc", "encV2"}}

\* The encryptDm call has returned a v2 payload
SentV2(c) ==
  /\ calls[c].pc = "done" /\ calls[c].ok
  /\ calls[c].sent # Null /\ calls[c].sent[1].version = DM_E2EE_V2

SentHeader(c) == parseHeader(calls[c].sent[1].header)

\* Every call of c's party from c to d ran alone: none of them overlapped
\* any call of that party
Serial(c, d) ==
  \A e \in c..d, g \in 1..Len(calls) :
    calls[e].me = calls[c].me /\ g # e => ~Overlapped(e, g)

\* d is the next call after c that sent on c's sending chain
NextOnChain(c, d) ==
  /\ c < d /\ calls[c].me = calls[d].me
  /\ SentV2(c) /\ SentV2(d) /\ SentHeader(c).dh = SentHeader(d).dh
  /\ \A e \in EncCalls : (c < e /\ e < d /\ calls[e].me = calls[c].me /\ SentV2(e))
                             => SentHeader(e).dh # SentHeader(c).dh

\* Call c returns its result in this step
Returns(c) ==
  /\ calls'[c].pc = "done" /\ calls'[c].ok
  /\ c > Len(calls) \/ calls[c].pc # "done"

\* The call worked on a v2 payload or produced one
IsV2(f) ==
  IF f.kind = "dec" THEN decryptRoute(f.msg[1].payload, Null) \in {"bootstrap", "NoSession"}
  ELSE f.sent # Null /\ f.sent[1].version = DM_E2EE_V2

PersistedOnReturn ==
  \A c \in 1..Len(calls') :
    LET f == calls'[c]
    IN (Returns(c) /\ IsV2(f))
       => /\ f.post # Null
          /\ loadSession(storage'[f.me], MyHex(f.me), PeerHex(f.me)) = f.post
          /\ f.kind # "dec"
               => /\ f.post[1].Ns = parseHeader(f.sent[1].header).n + 1
                  /\ toBase64(f.post[1].DHs.publicKey) = parseHeader(f.sent[1].header).dh

ConsecutiveCounters ==
  \A c \in EncCalls, d \in EncCalls :
    (NextOnChain(c, d) /\ Serial(c, d)) => SentHeader(d).n = SentHeader(c).n + 1

SentV1(c) ==
  /\ calls[c].pc = "done" /\ calls[c].ok /\ calls[c].sent # Null
  /\ calls[c].sent[1].version = DM_E2EE_V1 /\ calls[c].sent[1].header = Null
  /\ calls[c].post = Null

\* The encryptDm call has returned a v2 payload with a header and holds the
\* state it saved
SentV2Saved(c) == SentV2(c) /\ calls[c].sent[1].header # Null /\ calls[c].post # Null

\* In the step in which an encryptDm call returns, a v2 result finds a
\* session in storage and a v1 result has written nothing
EncReturnStep ==
  \A c \in 1..Len(calls') :
    (Returns(c) /\ calls'[c].kind # "dec")
    => LET f == calls'[c]
       IN IF f.sent[1].version = DM_E2EE_V2
            THEN loadSession(storage'[f.me], MyHex(f.me), PeerHex(f.me)) # Null
            ELSE storage' = storage

\* C12 as stated: v2 with a header when a session was persisted, or when
\* none was but a peerUserId was given and the bundle was fetched; a v1
\* payload without header and no session persisted in every other case.
C12_V2OrV1 ==
  \A c \in EncCalls :
    calls[c].pc = "done"
    => IF calls[c].hadSession
            \/ (calls[c].kind = "encV2"
                  /\ calls[c].fetch \in {"answer", "forged_spk", "forged_sig"})
         THEN SentV2Saved(c)
         ELSE SentV1(c)

EncOutcomes ==
  \A c \in EncCalls :
    calls[c].pc = "done"
    => IF calls[c].hadSession \/ (calls[c].kind = "encV2" /\ calls[c].fetch = "answer")
         THEN SentV2Saved(c)
         ELSE IF ~calls[c].hadSession /\ calls[c].kind = "encV2"
                 /\ calls[c].fetch \in {"forged_spk", "forged_sig"}
           THEN ~calls[c].ok /\ calls[c].err = "BadPrekeyBundle" /\ calls[c].sent = Null
           ELSE SentV1(c)

\* C12, amended: v2 with a header when a session was persisted, or when
\* none was but a peerUserId was given and a bundle with a valid
\* signed-prekey signature was fetched (the initiator session is then
\* persisted); BadPrekeyBundle and no payload when the fetched bundle's
\* signature does not verify; a v1 payload without header and nothing
\* written in every other case, a failed fetch included.
C12_V2OrV1OrBadBundle == []EncOutcomes /\ [][EncReturnStep]_vars

\* One encryptDmMessageV2 of a party without session fetched the bundle and
\* returned v2, having persisted a session; another, whose fetch failed,
\* returned v1.
C12_Witness ==
  \E c \in EncCalls, d \in EncCalls :
    /\ calls[c].kind = "encV2" /\ ~calls[c].hadSession /\ calls[c].fetch = "answer"
    /\ SentV2Saved(c) /\ SentHeader(c).ik # Null
    /\ calls[d].kind = "encV2" /\ ~calls[d].hadSession /\ calls[d].fetch = "failure"
    /\ SentV1(d)

\* C13: every decryptDm call on a payload whose version is neither 1 nor 2,
\* with or without header, ends with UnsupportedVersion.
C13_UnsupportedVersion ==
  \A c \in DecCalls :
    calls[c].msg[1].payload.version \notin {DM_E2EE_V1, DM_E2EE_V2}
    => calls[c].pc = "done" /\ ~calls[c].ok /\ calls[c].err = "UnsupportedVersion"

\* The payload is v2 and its header lacks ik or ek
LacksIkOrEk(payload) ==
  /\ payload.version = DM_E2EE_V2 /\ payload.header # Null
  /\ parseHeader(payload.header).ik = Null \/ parseHeader(payload.header).ek = Null

NoSessionRaised ==
  \A c \in DecCalls :
    (LacksIkOrEk(calls[c].msg[1].payload) /\ ~calls[c].hadSession)
    => /\ calls[c].pc = "done" /\ ~calls[c].ok /\ calls[c].err = "NoSession"
       /\ calls[c].attempts = 0 /\ ~calls[c].deleted

\* Call c ends with an error in this step
Raises(c) ==
  /\ calls'[c].pc = "done" /\ ~calls'[c].ok
  /\ c > Len(calls) \/ calls[c].pc # "done"

NoSessionStep ==
  \A c \in 1..Len(calls') :
    (Raises(c) /\ calls'[c].err = "NoSession") => storage' = storage

\* C14: a decryptDm call on a v2 payload whose header lacks ik or ek, made
\* when no session is persisted for the pair, ends with NoSession without a
\* decrypt attempt, and the step in which it does leaves the device's
\* storage (sessions and prekey store) as it was.
C14_NoSession == []NoSessionRaised /\ [][NoSessionStep]_vars

\* A device that holds a prekey store and no session was handed a first
\* payload stripped of ik (ek still there) and raised NoSession; its prekey
\* store still has all its one-time prekeys.
C14_Witness ==
  \E c \in DecCalls :
    /\ calls[c].tamper = "drop_ik" /\ ~calls[c].hadSession
    /\ calls[c].header[1].ek # Null
    /\ calls[c].pc = "done" /\ calls[c].err = "NoSession"
    /\ calls[c].preOpks = OPK_BATCH_SIZE
    /\ StoredOpks(storage[calls[c].me]) = OPK_BATCH_SIZE
    /\ loadSession(storage[calls[c].me], MyHex(calls[c].me), PeerHex(calls[c].me)) = Null

\* The bundle's signed-prekey signature verifies over the signed prekey's
\* public key under the bundle's identity key
SignatureVerifies(bundle) ==
  edVerify(bundle.signedPrekey.signature, bundle.signedPrekey.publicKey, bundle.identityKey)

BadBundleRejected ==
  \A c \in EncCalls :
    (calls[c].x3dh # Null /\ ~SignatureVerifies(calls[c].x3dh[1].bundle))
    => /\ ~calls[c].x3dh[1].x3dhResult.ok
       /\ calls[c].x3dh[1].x3dhResult.sharedSecret = Null
       /\ calls[c].pc = "done" /\ ~calls[c].ok /\ calls[c].err = "BadPrekeyBundle"
       /\ calls[c].session = Null /\ calls[c].post = Null /\ calls[c].sent = Null
       /\ \A m \in net : m.call # c

BadBundleStep ==
  \A c \in 1..Len(calls') :
    (Raises(c) /\ calls'[c].err = "BadPrekeyBundle") => storage' = storage /\ net' = net

\* C15: for a bundle whose signed-prekey signature does not verify over the
\* signed prekey's public key under the bundle's identity key, x3dhInitiate
\* fails with BadPrekeyBundle and yields no shared secret; the
\* encryptDmMessageV2 call ends with that error, has no session and no
\* payload, and the step in which it ends writes nothing to storage and
\* sends nothing.
C15_BadPrekeyBundle == []BadBundleRejected /\ [][BadBundleStep]_vars

\* Two encryptDmMessageV2 calls ended with BadPrekeyBundle: one on a bundle
\* whose signed prekey was replaced, one on a bundle whose signature was made
\* by another identity; the devices hold no session.
C15_Witness ==
  \E c \in EncCalls, d \in EncCalls :
    /\ calls[c].fetch = "forged_spk" /\ calls[d].fetch = "forged_sig"
    /\ \A e \in {c, d} :
         /\ calls[e].pc = "done" /\ calls[e].err = "BadPrekeyBundle"
         /\ ~SignatureVerifies(calls[e].x3dh[1].bundle)
         /\ loadSession(storage[calls[e].me], MyHex(calls[e].me), PeerHex(calls[e].me)) = Null

\* ------------------------------------------------------------------------
\* Properties of the prekey controller
\* ------------------------------------------------------------------------
Runs == {c \in 1..Len(calls) : calls[c].kind = "ctl"}

\* The run found a store and returned without error
Completed(c) == calls[c].pc = "done" /\ calls[c].ok /\ calls[c].loaded # Null

\* The stored signed prekey was older than the rotation period when the run
\* checked it
Aged(c) ==
  calls[c].checkedAt - calls[c].loaded[1].signedPrekey.createdAt > SIGNED_PREKEY_ROTATION_MS

SignedUploads(c) ==
  {i \in 1..Len(calls[c].uploads) : calls[c].uploads[i].signed_prekey # Null}

OpkUploads(c) ==
  {i \in 1..Len(calls[c].uploads) : calls[c].uploads[i].one_time_prekeys # <<>>}

\* The request carries the store's signed prekey: its id, its public key,
\* and a signature that verifies over the public key under the identity key
CarriesSignedPrekey(request, store, me) ==
  /\ request.signed_prekey # Null
  /\ request.signed_prekey[1].id = store.signedPrekey.id
  /\ fromBase64(request.signed_prekey[1].public_key) = store.signedPrekey.publicKey
  /\ edVerify(fromBase64(request.signed_prekey[1].signature), store.signedPrekey.publicKey,
              edGetPublicKey(EdSeed(me)))

\* The run holds a signed prekey made at its rotation check, has saved the
\* store with it and has uploaded it
Replaced(c) ==
  LET f == calls[c]
  IN /\ f.store[1].signedPrekey.id # f.loaded[1].signedPrekey.id
     /\ f.store[1].signedPrekey.createdAt # f.loaded[1].signedPrekey.createdAt
     /\ f.store[1].signedPrekey.createdAt = f.checkedAt
     /\ f.store[1].signedPrekey.publicKey # f.loaded[1].signedPrekey.publicKey
     /\ \E i \in 1..Len(f.saved) : f.saved[i].signedPrekey = f.store[1].signedPrekey
     /\ Cardinality(SignedUploads(c)) = 1
     /\ \A i \in SignedUploads(c) : CarriesSignedPrekey(f.uploads[i], f.store[1], f.me)

\* A run saves in this step: what is stored is the store the run holds
SaveStep ==
  \A c \in 1..Len(calls') :
    (c <= Len(calls) /\ calls[c].kind = "ctl" /\ Len(calls'[c].saved) > Len(calls[c].saved))
    => /\ loadPrekeyStore(storage'[calls[c].me]) = calls'[c].store
       /\ calls'[c].saved[Len(calls'[c].saved)] = calls'[c].store[1]

\* A run uploads in this step: the store it holds was saved before, and the
\* server has the request's keys afterwards
UploadStep ==
  \A c \in 1..Len(calls') :
    (c <= Len(calls) /\ calls[c].kind = "ctl" /\ Len(calls'[c].uploads) > Len(calls[c].uploads))
    => LET f == calls[c]
           request == calls'[c].uploads[Len(calls'[c].uploads)]
       IN /\ f.saved # <<>> => f.saved[Len(f.saved)] = f.store[1]
          /\ f.loaded = Null \/ f.store # f.loaded => f.saved # <<>>
          /\ loadPrekeyStore(storage[f.me]) = f.store
          /\ request.signed_prekey # Null => server'[f.me].signed_prekey = request.signed_prekey
          /\ server'[f.me].one_time_prekeys = server[f.me].one_time_prekeys \o request.one_time_prekeys

\* C16 as stated: a run that found a store and was told that the signed
\* prekey is not uploaded, or found it older than 7 days, has replaced the
\* signed prekey by a new one, persisted, signed and uploaded it.
C16_SignedPrekeyReplaced ==
  \A c \in Runs :
    (Completed(c) /\ (~calls[c].counts[1].signed_prekey_uploaded \/ Aged(c))) => Replaced(c)

SignedPrekeyHandled ==
  \A c \in Runs :
    Completed(c)
    => LET f == calls[c]
       IN IF Aged(c) THEN Replaced(c)
          ELSE /\ f.store[1].signedPrekey = f.loaded[1].signedPrekey
               /\ IF ~f.counts[1].signed_prekey_uploaded
                    THEN /\ Cardinality(SignedUploads(c)) = 1
                         /\ \A i \in SignedUploads(c) :
                              CarriesSignedPrekey(f.uploads[i], f.loaded[1], f.me)
                    ELSE SignedUploads(c) = {}

\* C16, amended: a run that found a store whose signed prekey is older than
\* 7 days replaces it by a new one (new id, new createdAt, new key),
\* persists the store, signs the new public key and uploads it; a run that
\* found a younger signed prekey which the server reports as not uploaded
\* keeps it and uploads it, signed again; otherwise the run uploads no
\* signed prekey.  What is uploaded was persisted before.
C16_RotatedOrReuploaded == []SignedPrekeyHandled /\ [][SaveStep /\ UploadStep]_vars

\* A run found a store whose signed prekey was older than 7 days and which
\* the server did not have, and replaced, persisted and uploaded it.
C16_Witness ==
  \E c \in Runs :
    /\ Completed(c) /\ Aged(c) /\ ~calls[c].counts[1].signed_prekey_uploaded
    /\ Replaced(c)
    /\ server[calls[c].me].signed_prekey = calls[c].uploads[1].signed_prekey
    /\ loadPrekeyStore(storage[calls[c].me])[1].signedPrekey = calls[c].store[1].signedPrekey

\* The (id, public key) pairs of a list of keys
IdKeyPairs(keys) == [i \in 1..Len(keys) |-> [id |-> keys[i].id, publicKey |-> keys[i].publicKey]]

Replenished ==
  \A c \in Runs :
    Completed(c)
    => LET f == calls[c]
           remaining == f.counts[1].one_time_prekeys_remaining
           before == f.loaded[1].oneTimePrekeys
           after == f.store[1].oneTimePrekeys
       IN IF remaining < OPK_LOW_THRESHOLD
            THEN /\ Len(f.newPublicKeys) = OPK_BATCH_SIZE - remaining
                 /\ Len(after) = Len(before) + Len(f.newPublicKeys)
                 /\ SubSeq(after, 1, Len(before)) = before
                 /\ IdKeyPairs(SubSeq(after, Len(before) + 1, Len(after))) = f.newPublicKeys
                 /\ f.saved # <<>> /\ f.saved[Len(f.saved)] = f.store[1]
                 /\ Cardinality(OpkUploads(c)) = 1
                 /\ \A i \in OpkUploads(c) :
                      /\ f.uploads[i].signed_prekey = Null
                      /\ Len(f.uploads[i].one_time_prekeys) = Len(f.newPublicKeys)
                      /\ \A j \in 1..Len(f.newPublicKeys) :
                           /\ f.uploads[i].one_time_prekeys[j].id = f.newPublicKeys[j].id
                           /\ fromBase64(f.uploads[i].one_time_prekeys[j].public_key)
                                = f.newPublicKeys[j].publicKey
            ELSE /\ f.newPublicKeys = <<>>
                 /\ after = before
                 /\ f.store[1].nextOPKId = f.loaded[1].nextOPKId
                 /\ OpkUploads(c) = {}

\* C17: a run that found a store and returned without error has, when the
\* server reported fewer than OPK_LOW_THRESHOLD one-time prekeys, generated
\* OPK_BATCH_SIZE - remaining new ones, appended them to the store it
\* persisted and uploaded exactly their (id, public key) pairs in one
\* request; when the server reported OPK_LOW_THRESHOLD or more, it has
\* generated and uploaded none.
C17_Replenish == []Replenished /\ [][SaveStep]_vars

\* With 19 one-time prekeys left on the server a run generated, persisted
\* and uploaded 31 new ones, and the server holds 50 again.
C17_Witness ==
  \E c \in Runs :
    /\ Completed(c)
    /\ calls[c].counts[1].one_time_prekeys_remaining = OPK_LOW_THRESHOLD - 1
    /\ Len(calls[c].newPublicKeys) = OPK_BATCH_SIZE - OPK_LOW_THRESHOLD + 1
    /\ OpkUploads(c) # {}
    /\ Len(server[calls[c].me].one_time_prekeys) = OPK_BATCH_SIZE
    /\ StoredOpks(storage[calls[c].me]) = 2 * OPK_BATCH_SIZE - OPK_LOW_THRESHOLD + 1

FreshStore ==
  \A c \in Runs :
    (calls[c].loaded = Null)
    => LET f == calls[c]
           store == f.store[1]
           keys == store.oneTimePrekeys
       IN /\ Len(keys) = OPK_BATCH_SIZE
          /\ \A i \in 1..Len(keys), j \in 1..Len(keys) : i # j => keys[i].id # keys[j].id
          /\ store.nextOPKId = store.signedPrekey.id + OPK_BATCH_SIZE + 1
          /\ Len(f.saved) <= 1 /\ Len(f.uploads) <= 1
          /\ f.uploads # <<>> => f.saved = <<store>>
          /\ (f.pc = "done" /\ f.ok) => f.uploads # <<>>
          /\ \A i \in 1..Len(f.uploads) :
               /\ CarriesSignedPrekey(f.uploads[i], store, f.me)
               /\ Len(f.uploads[i].one_time_prekeys) = OPK_BATCH_SIZE
               /\ \A j \in 1..OPK_BATCH_SIZE :
                    /\ f.uploads[i].one_time_prekeys[j].id = keys[j].id
                    /\ fromBase64(f.uploads[i].one_time_prekeys[j].public_key) = keys[j].publicKey

\* C18: a run that finds no persisted prekey store generates a store with
\* one signed prekey and 50 one-time prekeys of pairwise distinct ids and
\* nextOPKId = signed prekey id + 51, persists it before it uploads
\* anything, and its one upload carries the signed prekey (id, public key,
\* identity-key signature) and the public halves of all 50 one-time prekeys.
C18_FirstRun == []FreshStore /\ [][SaveStep /\ UploadStep]_vars

\* A first run has completed: the stored store is the generated one and the
\* server holds its signed prekey and its 50 one-time prekeys.
C18_Witness ==
  \E c \in Runs :
    /\ calls[c].loaded = Null /\ calls[c].pc = "done" /\ calls[c].ok
    /\ loadPrekeyStore(storage[calls[c].me]) = calls[c].store
    /\ server[calls[c].me].signed_prekey = calls[c].uploads[1].signed_prekey
    /\ Len(server[calls[c].me].one_time_prekeys) = OPK_BATCH_SIZE

\* ------------------------------------------------------------------------
\* Properties of OPK id allocation and of ratchet state serialization
\* ------------------------------------------------------------------------
\* Every OPK id the store holds or has held
EverHeld == IF pstore = Null THEN {} ELSE OpkIds(pstore[1]) \cup consumed

\* C19: under any sequence of generation, replenishment, consumption and
\* rotation on one store, the stored one-time prekeys have pairwise distinct
\* ids, none of them an id consumed before; nextOPKId is greater than every
\* id the store holds or has held; and the ids generateAdditionalOPKs hands
\* out for upload are new: pairwise distinct, not in the store before and
\* never consumed.
C19_OpkIdsUnique ==
  pstore # Null
  => /\ Cardinality(OpkIds(pstore[1])) = Len(pstore[1].oneTimePrekeys)
     /\ OpkIds(pstore[1]) \cap consumed = {}
     /\ \A id \in EverHeld : id < pstore[1].nextOPKId
     /\ plast.op = "add" =>
          LET new == {plast.result[i].id : i \in 1..Len(plast.result)}
          IN /\ Cardinality(new) = plast.count /\ Len(plast.result) = plast.count
             /\ new \cap (OpkIds(plast.before[1]) \cup consumed) = {}
             /\ \A id \in new : id >= plast.before[1].nextOPKId /\ id \in OpkIds(pstore[1])

\* After a rotation of the signed prekey and the consumption of an OPK, two
\* further OPKs were allocated, with ids above the consumed one.
C19_Witness ==
  /\ plast.op = "add" /\ plast.count = 2
  /\ consumed # {} /\ consumed \cap OpkIds(plast.before[1]) = {}
  /\ pstore[1].signedPrekey.createdAt > SIGNED_PREKEY_ROTATION_MS
  /\ \A id \in consumed : id < plast.result[1].id

\* C20: every ratchet state reached by initialization, encrypt and decrypt
\* equals, field by field, the state deserializeState rebuilds from its
\* serializeState form.
C20_SerializeRoundTrip ==
  \A p \in Party :
    rstate[p] # Null
    => LET s == rstate[p][1]
           r == deserializeState(serializeState(s))
       IN /\ r.DHs.publicKey = s.DHs.publicKey /\ r.DHs.privateKey = s.DHs.privateKey
          /\ r.DHr = s.DHr /\ r.RK = s.RK /\ r.CKs = s.CKs /\ r.CKr = s.CKr
          /\ r.Ns = s.Ns /\ r.Nr = s.Nr /\ r.PN = s.PN
          /\ r.MKSKIPPED = s.MKSKIPPED
          /\ r = s

\* One party's state holds skipped message keys and both chains, while the
\* other's has no receiving chain yet.
C20_Witness ==
  \E p \in Party :
    /\ rstate[p] # Null /\ rstate[Peer(p)] # Null
    /\ rstate[p][1].MKSKIPPED # {} /\ rstate[p][1].CKs # Null /\ rstate[p][1].CKr # Null
    /\ rstate[Peer(p)][1].CKr = Null /\ rstate[Peer(p)][1].Ns > 0

\* ------------------------------------------------------------------------
\* Properties of the sending chain, the DH ratchet and the skipped keys in
\* the ratchet-level conversation
\* ------------------------------------------------------------------------
Sent == flight \cup delivered

\* C22: ratchetEncrypt on a state without sending chain raises
\* SendingChainNotInitialized and yields no header, nonce, ciphertext or new
\* state, and succeeds on every other state; the only state without sending
\* chain is the responder's before its first successful decrypt.
C22_SendingChain ==
  /\ \A p \in Party :
       rstate[p] # Null =>
         (rstate[p][1].CKs = Null <=> (p = "B" /\ ~\E m \in delivered : m.to = p))
  /\ last.op = "encrypt" =>
       LET r == ratchetEncrypt(last.pre[1], last.sent, rng)
       IN IF last.pre[1].CKs = Null
            THEN /\ ~last.ok /\ last.err = "SendingChainNotInitialized"
                 /\ last.header = MkHeader(Null, 0, 0) /\ last.seq = 0
                 /\ r.nonce = Null /\ r.ciphertext = Null
                 /\ rstate[last.party] = last.pre
            ELSE /\ last.ok /\ last.err = ""
                 /\ rstate[last.party][1].CKs # Null
                 /\ \E m \in flight : m.seq = last.seq /\ m.header = last.header

\* The responder is refused while the initiator's first message is on its
\* way to it.
C22_Witness ==
  /\ last.op = "encrypt" /\ last.party = "B" /\ ~last.ok
  /\ last.err = "SendingChainNotInitialized"
  /\ \E m \in flight : m.to = "B"
  /\ rstate["B"][1].CKs = Null

\* C23: a successful ratchetDecrypt of a message carrying a ratchet key other
\* than the receiver's DHr leaves the receiver with a sending key pair that
\* differs from the one it held before and that none of its earlier messages
\* carried; every message carries its sender's sending public key of the
\* time, so the messages sent after the step carry the new key.
C23_DhRatchet ==
  /\ (last.op = "decrypt" /\ last.ok /\ ~LastHit /\ LastStep) =>
       LET pre == last.pre[1]
           post == rstate[last.party][1]
       IN /\ post.DHs.publicKey # pre.DHs.publicKey
          /\ post.DHs.privateKey # pre.DHs.privateKey
          /\ post.DHs.publicKey = getPublicKey(post.DHs.privateKey)
          /\ post.DHr = fromBase64(last.header.dh)
          /\ \A m \in Sent : m.from = last.party => m.header.dh # toBase64(post.DHs.publicKey)
  /\ (last.op = "decrypt" /\ last.ok /\ ~(~LastHit /\ LastStep)) =>
       rstate[last.party][1].DHs = last.pre[1].DHs
  /\ (last.op = "encrypt" /\ last.ok) =>
       /\ last.header.dh = toBase64(rstate[last.party][1].DHs.publicKey)
       /\ rstate[last.party][1].DHs = last.pre[1].DHs

\* The initiator sends again after it decrypted the responder's reply: the
\* header carries a key other than the one of its first message.
C23_Witness ==
  /\ last.op = "encrypt" /\ last.ok /\ last.party = "A"
  /\ \E m \in delivered : m.to = "A"
  /\ \E m \in Sent : m.from = "A" /\ m.seq = 1 /\ m.header.dh # last.header.dh
  /\ last.header.n = 0 /\ last.header.pn = 1

\* The message key a message was sealed with
MessageKeyOf(m) == fromBase64(m.ciphertext).key

\* The messages to p that were skipped over: still undelivered while a later
\* message of the same sender has been delivered
SkippedOver(p) == {m \in flight : m.to = p /\ \E d \in delivered : d.to = p /\ d.seq > m.seq}

\* C24: at every point the receiver's MKSKIPPED holds exactly one entry for
\* each message skipped over and not yet delivered, under that message's
\* ratchet key and counter and with its message key, and nothing else; it is
\* empty once every message sent has been delivered.
C24_SkippedKeys ==
  \A p \in Party :
    rstate[p] # Null =>
      /\ rstate[p][1].MKSKIPPED =
           {<<<<bytesToHex(fromBase64(m.header.dh)), m.header.n>>, MessageKeyOf(m)>> : m \in SkippedOver(p)}
      /\ MapSize(rstate[p][1].MKSKIPPED) = Cardinality(SkippedOver(p))
      /\ flight = {} => rstate[p][1].MKSKIPPED = {}

\* Three messages of one chain, the third received first (two keys cached),
\* then the other two: the cache is empty again.
C24_Witness ==
  /\ flight = {} /\ Cardinality(delivered) = MaxSends /\ OneChain
  /\ last.op = "decrypt" /\ last.ok /\ last.seq = 2
  /\ MapSize(last.pre[1].MKSKIPPED) = 1
  /\ last.pre[1].Nr = MaxSends
  /\ rstate[last.party][1].MKSKIPPED = {}

\* The chain keys of p's current sending chain, from the first to the present
ChainKeysOf(p) == {kdfCKn(rstate[p][1].CKs, 0 - j) : j \in 0..rstate[p][1].Ns}

\* The messages p has sent on its current sending chain
OnCurrentChain(p) == {m \in Sent : m.from = p /\ m.header.dh = toBase64(rstate[p][1].DHs.publicKey)}

\* C25: two messages of one sending chain never share their message key,
\* nonce or ciphertext, equal plaintexts or not; the message key of counter n
\* is the one kdfCK derives from the chain's n-th chain key, and no message
\* key of a chain is one of its chain keys.
C25_KeysDiffer ==
  /\ \A m1, m2 \in Sent :
       (m1.from = m2.from /\ m1.header.dh = m2.header.dh /\ m1.seq # m2.seq) =>
         /\ m1.header.n # m2.header.n
         /\ MessageKeyOf(m1) # MessageKeyOf(m2)
         /\ m1.nonce # m2.nonce
         /\ m1.ciphertext # m2.ciphertext
  /\ \A p \in Party :
       (rstate[p] # Null /\ rstate[p][1].CKs # Null) =>
         \A m \in OnCurrentChain(p) :
           /\ m.header.n < rstate[p][1].Ns
           /\ MessageKeyOf(m) = kdfCK(kdfCKn(rstate[p][1].CKs, m.header.n - rstate[p][1].Ns)).messageKey
           /\ MessageKeyOf(m) \notin ChainKeysOf(p)

\* The same plaintext was encrypted three times in a row on one chain.
C25_Witness ==
  /\ Cardinality(Sent) = MaxSends /\ OneChain
  /\ \A m1, m2 \in Sent : m1.pt = m2.pt
  /\ \E m1, m2 \in Sent : m2.header.n = m1.header.n + 1

\* ------------------------------------------------------------------------
\* Properties of OPK replenishment on a store
\* ------------------------------------------------------------------------
\* C28: generateAdditionalOPKs(store, count) returns count public (id, key)
\* pairs with the ids nextOPKId, nextOPKId + 1, ... in order, and a store
\* holding the previous OPKs in order followed by the new ones (the key pairs
\* of the returned public keys), with nextOPKId advanced by count and the
\* signed prekey unchanged.
C28_AdditionalOPKs ==
  plast.op = "add" =>
    LET before == plast.before[1]
        updated == pstore[1]
        old == Len(before.oneTimePrekeys)
    IN /\ Len(plast.result) = plast.count
       /\ Len(updated.oneTimePrekeys) = old + plast.count
       /\ SubSeq(updated.oneTimePrekeys, 1, old) = before.oneTimePrekeys
       /\ \A i \in 1..plast.count :
            /\ plast.result[i].id = before.nextOPKId + i - 1
            /\ updated.oneTimePrekeys[old + i].id = plast.result[i].id
            /\ updated.oneTimePrekeys[old + i].publicKey = plast.result[i].publicKey
            /\ plast.result[i].publicKey = getPublicKey(updated.oneTimePrekeys[old + i].privateKey)
            /\ DOMAIN plast.result[i] = {"id", "publicKey"}
       /\ updated.nextOPKId = before.nextOPKId + plast.count
       /\ updated.signedPrekey = before.signedPrekey

\* Two OPKs are added to a store from which the oldest OPK was consumed.
C28_Witness ==
  /\ plast.op = "add" /\ plast.count = 2
  /\ Len(plast.before[1].oneTimePrekeys) = OPK_BATCH_SIZE - 1
  /\ plast.before[1].oneTimePrekeys[1].id # plast.before[1].signedPrekey.id + 1
  /\ Len(pstore[1].oneTimePrekeys) = OPK_BATCH_SIZE + 1

\* ------------------------------------------------------------------------
\* Properties of the X3DH fields of the v2 header
\* ------------------------------------------------------------------------
\* The names of the fields of a header's JSON, in order
FieldNames(json) == [i \in 1..(Len(json) - 1) |-> json[i + 1][1]]

Loaded(st, a, b) == loadSession(st[Device], a, b)

\* The pair of the last operation's arguments, in either order
SamePair(a, b) == {a, b} = {plast'.id[1], plast'.id[2]}

\* loadSession gives the same for a pair in either argument order
SymmetricLoad ==
  /\ \A a \in PubHexes, b \in PubHexes : Loaded(storage, a, b) = Loaded(storage, b, a)
  /\ plast.op = "load" => plast.result = Loaded(storage, plast.id[2], plast.id[1])
  /\ plast.op = "none" => \A a \in PubHexes, b \in PubHexes : Loaded(storage, a, b) = Null

\* A save makes its state the one loaded for its pair, in either order; a
\* delete makes null the one loaded for its pair, in either order; a load
\* changes nothing; and what is loaded for every other pair stays as it was
SessionStep ==
  \A a \in PubHexes, b \in PubHexes :
    Loaded(storage', a, b) =
      IF plast'.op = "save" /\ SamePair(a, b) THEN plast'.result
      ELSE IF plast'.op = "delete" /\ SamePair(a, b) THEN Null
      ELSE Loaded(storage, a, b)

\* C27: the session saved by saveSession(A, B, s) is the one loadSession(B, A)
\* returns and deleteSession(B, A) removes; loadSession returns null for a
\* pair nothing was saved for and for a pair whose session was deleted; a
\* save or delete for one pair never changes what is loaded for another.
C27_SessionKeySymmetric == []SymmetricLoad /\ [][SessionStep]_vars

\* The session saved for (B, C) is loaded as (C, B) while the pairs (A, B)
\* and (C, C) hold another session and (A, C), once saved, none.
C27_Witness ==
  LET a == bytesToHex(edGetPublicKey(<<"seedA">>))
      b == bytesToHex(edGetPublicKey(<<"seedB">>))
      c == bytesToHex(edGetPublicKey(<<"seedC">>))
  IN /\ plast.op = "load" /\ plast.id = <<c, b>> /\ plast.result # Null
     /\ Loaded(storage, b, a) # Null /\ Loaded(storage, b, a) # plast.result
     /\ Loaded(storage, c, c) = Loaded(storage, a, b)
     /\ Loaded(storage, a, c) = Null

\* ------------------------------------------------------------------------
\* Properties of the conversation across restarts
\* ------------------------------------------------------------------------
\* What a caller sees of a ratchetEncrypt / ratchetDecrypt result, the
\* returned state in the form it is written out in
EncOutcome(r) ==
  <<r.ok, r.err, r.header, r.nonce, r.ciphertext, IF r.ok THEN serializeState(r.state) ELSE Null>>

DecOutcome(r) ==
  <<r.ok, r.err, r.plaintext, IF r.ok THEN serializeState(r.state) ELSE Null>>

\* After a restart each party's next ratchetEncrypt, and its next
\* ratchetDecrypt of any message on its way to it, intact or not, gives the
\* result it would have given on the state that was written out
ResumeEquivalent ==
  last.op = "resume" =>
    \A p \in Party :
      LET old == last.pre[p][1]
          new == rstate[p][1]
      IN /\ serializeState(new) = serializeState(old)
         /\ \A pt \in Plaintexts :
              EncOutcome(ratchetEncrypt(new, pt, rng + 1)) = EncOutcome(ratchetEncrypt(old, pt, rng + 1))
         /\ \A m \in flight, t \in Tampers :
              m.to = p =>
                LET w == Tampered(m, t)
                IN DecOutcome(ratchetDecrypt(new, w.header, w.nonce, w.ciphertext, rng + 1))
                     = DecOutcome(ratchetDecrypt(old, w.header, w.nonce, w.ciphertext, rng + 1))

\* Every message delivered as sent decrypts to its plaintext
DeliveredDecrypt ==
  (last.op = "decrypt" /\ last.tamper = "none") => (last.ok /\ last.plaintext = last.sent)

\* C21: replacing both parties' ratchet states, at any point of a
\* conversation, by the states read back from their JSON form changes no
\* later result: each next ratchetEncrypt and ratchetDecrypt succeeds or
\* fails as on the replaced state, with the same output and the same state
\* to write out, and every message delivered still decrypts to its plaintext.
C21_ResumeEquivalent == ResumeEquivalent /\ DeliveredDecrypt

\* The states are replaced while one party holds a skipped key, has made a
\* DH ratchet step and sent on its new chain, and a message for each party
\* is on its way.
C21_Witness ==
  /\ last.op = "resume"
  /\ \E p \in Party :
       /\ rstate[p][1].MKSKIPPED # {} /\ rstate[p][1].Ns > 0 /\ rstate[p][1].CKr # Null
       /\ last.pre[p][1].MKSKIPPED = rstate[p][1].MKSKIPPED
  /\ \A p \in Party : \E m \in flight : m.to = p

\* C29: a message encrypted in one session is rejected by ratchetDecrypt on
\* either state of the other session, which the rejection leaves as it was:
\* that state still decrypts every genuine message on its way to it, and
\* every message handed to its own receiver decrypts to its plaintext.
C29_SessionsIsolated ==
  /\ (last.op = "decrypt" /\ last.tamper = "session") =>
        /\ ~last.ok /\ last.plaintext = ""
        /\ rstate[last.party] = last.pre
        /\ \A m \in flight :
             m.to = last.party =>
               LET r == ratchetDecrypt(rstate[last.party][1], m.header, m.nonce, m.ciphertext, rng + 1)
               IN r.ok /\ r.plaintext = m.pt
  /\ (last.op = "decrypt" /\ last.tamper = "none") => (last.ok /\ last.plaintext = last.sent)

\* Alice's state for Carol is handed a message of the session with Bob
\* while Carol's reply is on its way to it.
C29_Witness ==
  /\ last.op = "decrypt" /\ last.tamper = "session" /\ ~last.ok
  /\ last.party = "AC" /\ last.sent = "hi bob"
  /\ rstate["AC"][1].Ns > 0
  /\ \E m \in flight : m.to = "AC" /\ m.pt = "hi carol"

\* The message the last ratchetDecrypt was handed
LastHanded ==
  LET m == CHOOSE x \in flight \cup delivered : x.seq = last.seq
  IN Tampered(m, last.tamper)

\* The RNG draw the last call was given
LastDraw == IF last.ok THEN rng ELSE rng + 1

\* The last call returned or threw what the function on values returns for
\* the value of the state passed in.
AsOnValues ==
  /\ last.op = "encrypt" =>
       LET f == ratchetEncrypt(last.pre[1], last.sent, LastDraw)
       IN /\ last.ok = f.ok /\ last.err = f.err /\ last.header = f.header
          /\ last.ok => rstate[last.party] = <<f.state>>
  /\ last.op = "decrypt" =>
       LET w == LastHanded
           f == ratchetDecrypt(last.pre[1], w.header, w.nonce, w.ciphertext, LastDraw)
       IN /\ last.ok = f.ok /\ last.err = f.err /\ last.plaintext = f.plaintext
          /\ last.ok => rstate[last.party] = <<f.state>>

\* C30: after every ratchetEncrypt and ratchetDecrypt, returned or thrown,
\* the state object passed in and its MKSKIPPED map hold what they held
\* before the call, and so does the other party's state; the caller of a
\* call that threw holds the state it passed, which decrypts every genuine
\* message on its way; the result is that of the function on values.
C30_StateIsValue ==
  last.op \in {"encrypt", "decrypt"} =>
    /\ heap.seen[last.party] = last.pre
    /\ heap.seen[Peer(last.party)] = rstate[Peer(last.party)]
    /\ ~last.ok =>
         /\ rstate[last.party] = last.pre
         /\ \A m \in flight :
              m.to = last.party =>
                LET r == ratchetDecryptRef(heap.objs, heap.at[m.to], m.header, m.nonce,
                                           m.ciphertext, rng + 1)
                IN r.ok /\ r.plaintext = m.pt
    /\ AsOnValues

\* A ratchetDecrypt on a state with a receiving chain took the DH ratchet
\* step, stored a skipped key and threw, while the genuine message is on its
\* way to its caller.
C30_Witness ==
  /\ last.op = "decrypt" /\ ~last.ok /\ last.err = "DecryptFailed"
  /\ last.tamper = "n"
  /\ last.pre[1].CKr # Null
  /\ last.header.dh # toBase64(last.pre[1].DHr)
  /\ \E m \in flight : m.to = last.party /\ m.seq = last.seq

\* C38: a ratchetEncrypt that returns puts the sending key, PN and the
\* counter Ns of the state passed in into the header; the state returned has
\* the chain key one kdfCK step on and Ns one higher, and every other field
\* as it was.
C38_EncryptFrame ==
  (last.op = "encrypt" /\ last.ok) =>
    LET old == last.pre[1]
        new == rstate[last.party][1]
    IN /\ last.header.dh = toBase64(old.DHs.publicKey)
       /\ last.header.pn = old.PN
       /\ last.header.n = old.Ns
       /\ new.CKs = kdfCK(old.CKs).chainKey
       /\ new.Ns = old.Ns + 1
       /\ new.DHs = old.DHs /\ new.DHr = old.DHr /\ new.RK = old.RK /\ new.CKr = old.CKr
       /\ new.Nr = old.Nr /\ new.PN = old.PN /\ new.MKSKIPPED = old.MKSKIPPED

\* A party that has sent on an earlier chain and received on a new one
\* encrypts the first message of its new sending chain.
C38_Witness ==
  /\ last.op = "encrypt" /\ last.ok
  /\ last.pre[1].PN > 0 /\ last.pre[1].Ns = 0 /\ last.pre[1].CKr # Null
  /\ rstate[last.party][1].Ns = 1

\* The key a header names is cached in the state / differs from the state's DHr
CachedKey(state, header) ==
  MapHas(state.MKSKIPPED, <<bytesToHex(fromBase64(header.dh)), header.n>>)

OtherRatchetKey(state, header) ==
  state.DHr = Null \/ bytesToHex(fromBase64(header.dh)) # bytesToHex(state.DHr)

\* C37: a ratchetDecrypt that returns has made a DH ratchet step exactly
\* when no cached key matched the header and the header's key was not the
\* state's DHr (a null DHr included).  The step sets PN to the old Ns, Ns to
\* 0 and DHr to the header's key, derives RK and CKr anew, replaces DHs by a
\* key pair not used before and sets CKs, and Nr ends as header.n + 1.  With
\* the header's key equal to DHr, or with a cached key, DHs, DHr, RK, CKs, Ns
\* and PN stay as they were.
C37_DhStepExactlyWhen ==
  (last.op = "decrypt" /\ last.ok) =>
    LET old == last.pre[1]
        new == rstate[last.party][1]
        h == last.header
        hdrKey == fromBase64(h.dh)
    IN IF ~CachedKey(old, h) /\ OtherRatchetKey(old, h)
         THEN LET kd1 == kdfRK(old.RK, getSharedSecret(old.DHs.privateKey, hdrKey))
                  kd2 == kdfRK(kd1.rootKey, getSharedSecret(new.DHs.privateKey, hdrKey))
              IN /\ new.PN = old.Ns /\ new.Ns = 0 /\ new.DHr = hdrKey
                 /\ new.RK = kd2.rootKey /\ new.RK # old.RK
                 /\ new.CKr = kdfCKn(kd1.chainKey, h.n + 1) /\ new.CKr # old.CKr
                 /\ new.DHs # old.DHs
                 /\ \A m \in flight \cup delivered : m.header.dh # toBase64(new.DHs.publicKey)
                 /\ new.DHs.publicKey = getPublicKey(new.DHs.privateKey)
                 /\ new.CKs = kd2.chainKey /\ new.CKs # Null
                 /\ new.Nr = h.n + 1
         ELSE /\ new.DHs = old.DHs /\ new.DHr = old.DHr /\ new.RK = old.RK
              /\ new.CKs = old.CKs /\ new.Ns = old.Ns /\ new.PN = old.PN
              /\ ~CachedKey(old, h) => new.Nr = h.n + 1

\* A party that has sent one message on its chain and holds a DHr receives
\* the second message of its peer's new chain first.
C37_Witness ==
  /\ last.op = "decrypt" /\ last.ok
  /\ ~CachedKey(last.pre[1], last.header) /\ OtherRatchetKey(last.pre[1], last.header)
  /\ last.pre[1].DHr # Null /\ last.pre[1].Ns > 0 /\ last.header.n > 0
  /\ rstate[last.party][1].PN > 0

\* C36: a message that was decrypted once is refused whenever it is handed
\* to ratchetDecrypt again, on the state right after its decryption and on
\* every state its receiver reaches later, on the same chain or after DH
\* ratchet steps; the refusal returns no plaintext and leaves the state as
\* it was, and the receiver holds no skipped key equal to the message key of
\* a decrypted message.
C36_ReplayRejected ==
  /\ (last.op = "decrypt" /\ last.tamper = "replay") =>
       /\ ~last.ok /\ last.plaintext = ""
       /\ rstate[last.party] = last.pre
  /\ \A m \in delivered :
       /\ ~ratchetDecrypt(rstate[m.to][1], m.header, m.nonce, m.ciphertext, rng + 1).ok
       /\ \A e \in rstate[m.to][1].MKSKIPPED : e[2] # MessageKeyOf(m)

\* A message whose successor on the same chain was decrypted as well is
\* handed in again after its receiver has made a DH ratchet step to a later
\* chain of the sender.
C36_Witness ==
  /\ last.op = "decrypt" /\ last.tamper = "replay" /\ ~last.ok
  /\ last.header.dh # toBase64(rstate[last.party][1].DHr)
  /\ \E d \in delivered :
       d.to = last.party /\ d.header.dh = last.header.dh /\ d.header.n > last.header.n

\* The messages on their way to p that belong to a chain of the sender
\* earlier than one p has already received from
LateFor(p) ==
  {m \in flight : m.to = p /\ \E d \in delivered :
                    d.to = p /\ d.seq > m.seq /\ d.header.dh # m.header.dh}

\* C35: a DH ratchet step on a state with a receiving chain caches, under
\* the old DHr, the message key of each counter from Nr to header.pn - 1,
\* so that the key of every message of the previous chain still on its way
\* is cached, then or by an earlier skip; from then on each of these messages
\* decrypts to its plaintext with its cached key, and that decrypt removes
\* the key and changes nothing else of the state.
C35_LateMessages ==
  /\ (last.op = "decrypt" /\ last.ok /\ ~CachedKey(last.pre[1], last.header)
        /\ OtherRatchetKey(last.pre[1], last.header) /\ last.pre[1].CKr # Null) =>
       LET old == last.pre[1]
           new == rstate[last.party][1]
           oldHex == bytesToHex(old.DHr)
       IN /\ \A j \in old.Nr .. (last.header.pn - 1) :
               <<<<oldHex, j>>, kdfCK(kdfCKn(old.CKr, j - old.Nr)).messageKey>> \in new.MKSKIPPED
          /\ \A m \in flight :
               (m.to = last.party /\ m.header.dh = toBase64(old.DHr)) =>
                 /\ m.header.n < last.header.pn
                 /\ <<<<oldHex, m.header.n>>, MessageKeyOf(m)>> \in new.MKSKIPPED
  /\ \A p \in Party : \A m \in LateFor(p) :
       LET cur == rstate[p][1]
           r == ratchetDecrypt(cur, m.header, m.nonce, m.ciphertext, rng + 1)
       IN /\ CachedKey(cur, m.header)
          /\ r.ok /\ r.plaintext = m.pt
          /\ r.state = [cur EXCEPT !.MKSKIPPED =
                          MapDelete(@, <<bytesToHex(fromBase64(m.header.dh)), m.header.n>>)]
  /\ (last.op = "decrypt" /\ last.tamper = "none" /\ CachedKey(last.pre[1], last.header)) =>
       LET old == last.pre[1]
           new == rstate[last.party][1]
       IN /\ last.ok /\ last.plaintext = last.sent
          /\ new.DHr = old.DHr /\ new.DHs = old.DHs /\ new.RK = old.RK
          /\ new.CKs = old.CKs /\ new.CKr = old.CKr
          /\ new.Ns = old.Ns /\ new.Nr = old.Nr /\ new.PN = old.PN

\* A message of the sender's previous chain arrives after the first message
\* of the new chain and decrypts with the key cached at the DH ratchet step.
C35_Witness ==
  /\ last.op = "decrypt" /\ last.ok /\ last.tamper = "none"
  /\ CachedKey(last.pre[1], last.header) /\ OtherRatchetKey(last.pre[1], last.header)
  /\ last.plaintext = last.sent
  /\ \E d \in delivered : d.to = last.party /\ d.seq > last.seq /\ d.header.dh # last.header.dh
                            /\ d.header.pn > last.header.n

\* C31: on the legacy path, a payload that encryptDmMessage returned for a
\* channel, in the absence of a session, is opened by the peer's
\* decryptDmMessage for the same channel, which returns the plaintext that
\* was encrypted: both sides derive the same key for the channel.  For
\* another channel the call fails, and so it does, whatever the channel,
\* when the nonce is not AES_GCM_NONCE_BYTES long.
C31_LegacyRoundTrip ==
  \A i \in 1..Len(calls) :
    calls[i].kind = "dec" =>
      LET f == calls[i]
          m == f.msg[1]
          nonce == fromBase64(TamperedNonce(m.payload, f.tamper).nonce)
      IN /\ m.payload.version = DM_E2EE_V1 /\ m.payload.header = Null
         /\ f.route = "decryptV1"
         /\ (f.me = Peer(m.from) /\ f.channelId = m.channelId /\ f.tamper = "none")
              => /\ f.ok /\ f.returned = <<m.pt>>
                 /\ deriveConversationKeyMaterial(f.channelId, EdSeed(f.me), PeerHex(f.me))
                      = deriveConversationKeyMaterial(m.channelId, EdSeed(m.from), PeerHex(m.from))
         /\ f.channelId # m.channelId => ~f.ok /\ f.returned = Null
         /\ byteLength(nonce) # AES_GCM_NONCE_BYTES
              => ~f.ok /\ f.err = "InvalidNonce" /\ f.returned = Null

\* The peer opened a legacy payload for its channel, was refused for the
\* other channel, and was refused a payload of the right channel whose nonce
\* is one byte short
C31_Witness ==
  \E i, j, k \in 1..Len(calls) :
    /\ calls[i].kind = "dec" /\ calls[j].kind = "dec" /\ calls[k].kind = "dec"
    /\ calls[i].me = Peer(calls[i].msg[1].from) /\ calls[i].tamper = "none"
    /\ calls[i].channelId = calls[i].msg[1].channelId
    /\ calls[i].ok /\ calls[i].returned = <<calls[i].msg[1].pt>>
    /\ calls[j].msg = calls[i].msg /\ calls[j].me = calls[i].me /\ calls[j].tamper = "none"
    /\ calls[j].channelId # calls[i].channelId /\ ~calls[j].ok
    /\ calls[k].msg = calls[i].msg /\ calls[k].me = calls[i].me /\ calls[k].tamper = "short"
    /\ calls[k].channelId = calls[i].channelId /\ calls[k].err = "InvalidNonce"

\* The session a call loaded has decrypted a message: it holds a receiving
\* chain
Established(session) == session # Null /\ session[1].CKr # Null

C40_LaterPayloadDecrypts ==
  \A c \in 1..Len(calls) :
    LET f == calls[c]
    IN (/\ f.kind = "dec" /\ f.pc = "done" /\ f.me = Owner /\ f.tamper = "none"
        /\ ~f.hadSession
        /\ f.msg[1].from = Initiator
        /\ f.msg[1].payload.version = DM_E2EE_V2 /\ ~FirstPayload(f.msg[1])
        /\ \E m \in net : m.from = Initiator /\ FirstPayload(m) /\ m.call < f.msg[1].call
        /\ \A e \in 1..Len(calls) : calls[e].kind = "dec" => ~FirstPayload(calls[e].msg[1]))
         => f.ok /\ f.returned = <<f.msg[1].pt>>

\* C39: the responder bootstraps a first message with the signed prekey of
\* the bundle the initiator built it from, and so derives the initiator's
\* shared secret, also when the prekey controller replaced the signed prekey
\* after the bundle was fetched: the session of the bootstrap has that
\* signed prekey as its ratchet key pair, and, the bundle's one-time prekey
\* being still in the store, the initiator's secret as its root key.
C39_BootstrapWithBundleKey ==
  \A c \in 1..Len(calls) :
    LET f == calls[c]
        m == f.msg[1]
        sender == calls[m.call]
    IN (/\ f.kind = "dec" /\ f.me = Owner /\ f.tamper = "none" /\ ~f.hadSession
        /\ f.retries = 0 /\ f.attempts = 0
        /\ f.pc \in {"savePrekeyStore", "ratchetDecrypt"}
        /\ m.from = Initiator /\ FirstPayload(m))
         => /\ f.session[1].DHs.publicKey = m.bundle[1].signedPrekey.publicKey
            /\ (m.bundle[1].oneTimePrekey # Null => f.opkPrivate # Null)
                 => f.session[1].RK = sender.x3dh[1].x3dhResult.sharedSecret

\* C32: once a prekey store from which a one-time prekey was removed has
\* been stored, no prekey store stored later holds that prekey, whatever
\* responder bootstraps and controller runs on the device interleave: the
\* id a bootstrap consumed and saved is in no store the device holds
\* afterwards.
C32_ConsumedStaysRemoved ==
  \A c \in 1..Len(calls) :
    LET f == calls[c]
    IN (/\ f.kind = "dec" /\ f.opkPrivate # Null
        /\ f.pc \in {"ratchetDecrypt", "deleteSession", "retry", "done"}
        /\ loadPrekeyStore(storage[f.me]) # Null)
         => f.header[1].opk_id[1] \notin OpkIds(loadPrekeyStore(storage[f.me])[1])

\* C34: whenever no run of the prekey controller is in progress and the
\* most recent run returned without error, the signed prekey the key server
\* accepted last has the id and the public key of the signed prekey in the
\* stored prekey store, also after an earlier run that failed between
\* storing a new signed prekey and uploading it.
C34_ServerHasLocalSignedPrekey ==
  (/\ Runs # {}
   /\ \A c \in Runs : calls[c].pc = "done"
   /\ \A c \in Runs : (\A e \in Runs : e <= c) => calls[c].ok)
    => /\ loadPrekeyStore(storage[Owner]) # Null
       /\ server[Owner].signed_prekey # Null
       /\ LET local == loadPrekeyStore(storage[Owner])[1].signedPrekey
              accepted == server[Owner].signed_prekey[1]
          IN /\ accepted.id = local.id
             /\ fromBase64(accepted.public_key) = local.publicKey

====
